---- MODULE Spec2Model ----
(***************************************************************************)
(* The test run orchestrator of the runner (Runner.runAllTests, _run,      *)
(* _performGlobalSetup, _skipTestsNotMarkedAsRunAlways, collectRunStages). *)
(*                                                                         *)
(* Two threads of control share the event loop: the outer one is           *)
(* runAllTests, which races _run against the global timeout, and the inner *)
(* one is _run itself, which keeps running after the timeout has fired.    *)
(* The removal of the output directories is started by _run and never      *)
(* awaited: it ends on its own.                                            *)
(* Every action is one continuation of the code, from one await to the     *)
(* next.  The collaborators that are awaited (plugins, global hooks, the   *)
(* dispatcher, the interrupt signal, the timer) are the environment: each  *)
(* of their outcomes is a nondeterministic choice.                         *)
(*                                                                         *)
(* In this specification every project keeps its tests in one file outside *)
(* any parallel suite, so that the grouper yields one group per project,   *)
(* and no shard is configured.  The grouper, the shard filter and the only *)
(* filter are run on their own in GroupSpec, ShardSpec and OnlySpec.       *)
(***************************************************************************)
EXTENDS Integers, Sequences, FiniteSets

\* Bounds of the model.
NumProjects == 3
MaxStage == 2
TestsPerProject == 1
NumPlugins == 2
MaxTests == 5
MaxWorkers == 3
MaxNodes == 4
MaxPerProject == 2
MaxShards == 3

Projects == 1..NumProjects
Plugins == 1..NumPlugins
Tests == 1..(NumProjects * TestsPerProject)
Runs == {"default", "always"}
ErrKinds == {"fatal", "rmdir", "setup", "teardown", "dispatch", "timeout"}

FatalKinds == {"loadError", "duplicateTitles", "forbidOnly", "noTests"}

\* What collection can accumulate: up to two fatal errors; the lack of tests is
\* found last (line 404).
FatalOutcomes ==
  {<<>>} \cup {<<a>> : a \in FatalKinds}
         \cup {<<a, b>> : a \in FatalKinds \ {"noTests"}, b \in FatalKinds}

VARIABLES
  projects,            \* config.projects: project id -> [stage, run]
  config,              \* globalTimeout: a global timeout is configured;
                       \* outputDirs: an output directory of a selected project exists
  rmdir,               \* _removeOutputDirs: none, running, removed, busyFallback, error
  stages,              \* concurrentTestGroups
  fatalErrors,         \* the fatal errors collection accumulated, in order
  listOnly,            \* options.listOnly
  onlyFiltered,        \* filterOnly was applied to the collected suites
  pc,                  \* position of _run
  pcOuter,             \* position of runAllTests
  status,              \* result.status of _run
  caught,              \* the catch block of _run was taken
  runResult,           \* the status _run returned, "none" while it runs
  fullResult,          \* fullResult.status of runAllTests, "none" until set
  timedOut,            \* raceAgainstTimeout ended by the timer
  pluginIdx,           \* index of the plugin being set up
  setupState,          \* per plugin: none, running, done, threw
  setUp,               \* pluginsThatWereSetUp
  globalSetupResult,   \* undef; set (assigned, not yet inspected); fn; noop ('<noop>'
                       \* or another value that is no function)
  hookState,           \* globalSetup hook: none, running, done, threw
  setupW,              \* the SigIntWatcher of _performGlobalSetup
  stageW,              \* the SigIntWatcher of the stage loop (the last one created)
  k,                   \* index of the stage the loop is at
  previousStageFailed,
  hasWorkerErrors,
  dispRan,             \* the live dispatcher has run its tests
  dispatchLog,         \* one entry per constructed dispatcher
  result,              \* per test: none, passed, failed, skipped
  begins, ends,        \* per test: number of onTestBegin / onTestEnd
  tdCtx,               \* who called tearDown: setup (line 591) or finally (line 481)
  tdStep,              \* position inside tearDown
  tdQueue,             \* plugins still to tear down
  tdRuns,              \* number of calls of tearDown
  tdDone,              \* number of calls of tearDown that returned
  tdLog,               \* teardown steps invoked, in order
  tdFailures,          \* number of teardown steps that threw
  tdSeen,              \* globalSetupResult and config.globalTeardown as tearDown read them
  exitPath,            \* the exit path _run took
  errCount,            \* number of onError per kind
  begun, ended, exited,\* onBegin / onEnd / _onExit was emitted
  earlyTestEvent,      \* a test event was emitted before onBegin
  lateTestEvent,       \* a test event was emitted after onEnd
  eventAfterExit,      \* a reporter event was emitted after _onExit
  out,                 \* the reporter events of the last step of _run, in order
  fnPc,                \* position of a collection function run on its own: input, applied
  workers,             \* config.workers
  shard,               \* config.shard: [current, total], NoShard when null
  projectSuites,       \* the file suites built for the projects, in order
  rootSuite,           \* the suite tree under the root
  concurrentTestGroups,\* the groups of each stage
  before,              \* rootSuite and concurrentTestGroups as handed to the function
  options,             \* what the function run on its own is handed besides
  returned,            \* what it returned or threw
  transport            \* a WebSocketTransport: its socket, its callback, its callers

vars == <<projects, config, rmdir, stages, fatalErrors, listOnly, onlyFiltered,
          pc, pcOuter, status, caught, runResult,
          fullResult, timedOut, pluginIdx, setupState, setUp, globalSetupResult,
          hookState, setupW, stageW, k, previousStageFailed, hasWorkerErrors,
          dispRan, dispatchLog, result, begins, ends, tdCtx, tdStep, tdQueue,
          tdRuns, tdDone, tdLog, tdFailures, tdSeen, exitPath, errCount, begun,
          ended, exited, earlyTestEvent, lateTestEvent, eventAfterExit, out,
          fnPc, workers, shard, projectSuites, rootSuite, concurrentTestGroups,
          before, options, returned, transport>>

cfgVars == <<projects, config>>
collectVars == <<stages, fatalErrors, listOnly, onlyFiltered>>
ioVars == <<options, returned, transport>>
fnVars ==
  <<fnPc, workers, shard, projectSuites, rootSuite, concurrentTestGroups, before, ioVars>>
setupVars == <<pluginIdx, setupState, setUp, globalSetupResult, hookState, setupW>>
loopVars == <<stageW, k, previousStageFailed, hasWorkerErrors, dispRan, dispatchLog>>
tdVars == <<tdCtx, tdStep, tdQueue, tdRuns, tdDone, tdLog, tdFailures, tdSeen>>
outerVars == <<pcOuter, fullResult, timedOut>>
innerVars ==
  <<collectVars, pc, status, caught, runResult, exitPath, setupVars, loopVars, result,
    tdVars>>

----------------------------------------------------------------------------
\* Sequences

Range(s) == {s[i] : i \in DOMAIN s}

Reverse(s) == [i \in 1..Len(s) |-> s[Len(s) + 1 - i]]

RECURSIVE Flatten(_)
Flatten(ss) == IF ss = <<>> THEN <<>> ELSE Head(ss) \o Flatten(Tail(ss))

Count(s, P(_)) == Cardinality({i \in DOMAIN s : P(s[i])})

Min(S) == CHOOSE x \in S : \A y \in S : x <= y

RECURSIVE SortSet(_)
SortSet(S) == IF S = {} THEN <<>> ELSE <<Min(S)>> \o SortSet(S \ {Min(S)})

----------------------------------------------------------------------------
\* Reporter events

OnBegin == [type |-> "onBegin", test |-> 0, status |-> "none"]
OnError(kind) == [type |-> "onError", test |-> 0, status |-> kind]
OnTestBegin(t) == [type |-> "onTestBegin", test |-> t, status |-> "none"]
OnTestEnd(t, st) == [type |-> "onTestEnd", test |-> t, status |-> st]
OnEnd(st) == [type |-> "onEnd", test |-> 0, status |-> st]
OnExit == [type |-> "_onExit", test |-> 0, status |-> "none"]

IsTestEvent(e) == e.type \in {"onTestBegin", "onTestEnd"}

\* The kind of error an onError reports.
ErrClass(kind) == IF kind \in FatalKinds THEN "fatal" ELSE kind

\* The reporter receives the events evs, in order.
Emit(evs) ==
  /\ begun' = (begun \/ \E i \in DOMAIN evs : evs[i].type = "onBegin")
  /\ ended' = (ended \/ \E i \in DOMAIN evs : evs[i].type = "onEnd")
  /\ exited' = (exited \/ \E i \in DOMAIN evs : evs[i].type = "_onExit")
  /\ earlyTestEvent' = (earlyTestEvent \/ (~begun /\ \E i \in DOMAIN evs : IsTestEvent(evs[i])))
  /\ lateTestEvent' = (lateTestEvent \/ (ended /\ \E i \in DOMAIN evs : IsTestEvent(evs[i])))
  /\ eventAfterExit' = (eventAfterExit \/ (exited /\ evs # <<>>))
  /\ errCount' = [e \in ErrKinds |->
                    errCount[e] + Count(evs, LAMBDA x : x.type = "onError" /\ ErrClass(x.status) = e)]
  /\ begins' = [t \in Tests |->
                    begins[t] + Count(evs, LAMBDA x : x.type = "onTestBegin" /\ x.test = t)]
  /\ ends' = [t \in Tests |->
                    ends[t] + Count(evs, LAMBDA x : x.type = "onTestEnd" /\ x.test = t)]

\* A step of _run, or of what it awaits, reports evs.
Report(evs) == out' = evs /\ Emit(evs)

\* A step of runAllTests reports evs.
ReportOuter(evs) == Emit(evs) /\ UNCHANGED out

----------------------------------------------------------------------------
\* Stages and groups

ProjectSeq == [p \in Projects |-> p]

TestsOf(p) == [i \in 1..TestsPerProject |-> (p - 1) * TestsPerProject + i]

\* The keys of the MultiMap stage -> projects, in insertion order.
StageKeys(projs) ==
  LET first == SelectSeq(ProjectSeq,
                 LAMBDA p : \A q \in 1..(p - 1) : projs[q].stage # projs[p].stage)
  IN  [i \in 1..Len(first) |-> projs[first[i]].stage]

SortStageIdsUnsorted(ids) == ids

\* stageIds.sort((a, b) => a - b)
SortStageIds(ids) == SortSet(Range(ids))

collectRunStages(projs) ==
  LET ids == SortStageIds(StageKeys(projs))
  IN  [i \in 1..Len(ids) |->
         SelectSeq(ProjectSeq, LAMBDA p : projs[p].stage = ids[i])]

createGroup(projs, p) == [projectId |-> p, run |-> projs[p].run, tests |-> TestsOf(p)]

\* One entry per run stage: the groups of the stage's projects.
collectTestGroups(projs) ==
  LET runStages == collectRunStages(projs)
  IN  [i \in 1..Len(runStages) |->
         [j \in 1..Len(runStages[i]) |-> createGroup(projs, runStages[i][j])]]

GroupTests(groups) == Flatten([i \in 1..Len(groups) |-> groups[i].tests])

\* TestCase.ok(): a test without a result, and a skipped one, is ok.
TestOk(res, t) == res[t] # "failed"

SkippedEvents(tests) ==
  Flatten([i \in 1..Len(tests) |-> <<OnTestBegin(tests[i]), OnTestEnd(tests[i], "skipped")>>])

SkipKeepsEveryGroup(testGroups) == [groups |-> testGroups, events |-> <<>>]

\* The groups to run, and the events emitted for the tests of the others.
skipTestsNotMarkedAsRunAlways(testGroups) ==
  [groups |-> SelectSeq(testGroups, LAMBDA g : g.run = "always"),
   events |-> SkippedEvents(GroupTests(SelectSeq(testGroups, LAMBDA g : g.run # "always")))]

\* The head of the stage loop, from stage i on: the first stage that still has
\* groups (i > Len(stgs) when there is none), and the events of the skipped tests.
RECURSIVE LoopHead(_, _, _)
LoopHead(stgs, i, prevFailed) ==
  IF i > Len(stgs)
  THEN [k |-> i, groups |-> <<>>, events |-> <<>>]
  ELSE LET sk == IF prevFailed
                 THEN skipTestsNotMarkedAsRunAlways(stgs[i])
                 ELSE [groups |-> stgs[i], events |-> <<>>]
       IN  IF sk.groups = <<>>
           THEN LET r == LoopHead(stgs, i + 1, prevFailed)
                IN  [r EXCEPT !.events = sk.events \o @]
           ELSE [k |-> i, groups |-> sk.groups, events |-> sk.events]

StageStatusIgnoringTests(hadSignal, workerErrors, anyNotOk) ==
  IF hadSignal THEN "interrupted"
  ELSE IF workerErrors THEN "failed" ELSE "passed"

\* result.status at the end of the stage loop
StageStatus(hadSignal, workerErrors, anyNotOk) ==
  IF hadSignal THEN "interrupted"
  ELSE IF workerErrors \/ anyNotOk THEN "failed" ELSE "passed"

----------------------------------------------------------------------------
\* Initial state: a configuration, and a run that has not started.

\* The project lists that are run with a global timeout configured or with
\* output directories to remove: a first stage followed by a second one with
\* groups to skip and groups to run.
TimeoutProjects ==
  {<<[stage |-> 0, run |-> "default"]>> \o rest :
     rest \in [1..(NumProjects - 1) -> [stage : {1}, run : Runs]]}

\* Stage ordinals are compared, never computed with: the ordinals in use are
\* taken to be 0..m.
DenseStages(projs) ==
  \A s \in 0..MaxStage :
    (\E p \in Projects : projs[p].stage > s) => (\E p \in Projects : projs[p].stage = s)

RunnerInit ==
  /\ projects \in [Projects -> [stage : 0..MaxStage, run : Runs]]
  /\ DenseStages(projects)
  /\ config \in [globalTimeout : BOOLEAN, outputDirs : BOOLEAN]
  /\ ~(config.globalTimeout /\ config.outputDirs)
  /\ (config.globalTimeout \/ config.outputDirs) => projects \in TimeoutProjects
  /\ rmdir = "none"
  /\ stages = <<>>
  /\ fatalErrors = <<>>
  /\ listOnly = FALSE
  /\ onlyFiltered = FALSE
  /\ pc = "collect"
  /\ pcOuter = "racing"
  /\ status = "passed"
  /\ caught = FALSE
  /\ runResult = "none"
  /\ fullResult = "none"
  /\ timedOut = FALSE
  /\ pluginIdx = 0
  /\ setupState = [p \in Plugins |-> "none"]
  /\ setUp = <<>>
  /\ globalSetupResult = "undef"
  /\ hookState = "none"
  /\ setupW = [armed |-> FALSE, had |-> FALSE, at |-> "none"]
  /\ stageW = [created |-> FALSE, armed |-> FALSE, had |-> FALSE]
  /\ k = 1
  /\ previousStageFailed = FALSE
  /\ hasWorkerErrors = FALSE
  /\ dispRan = FALSE
  /\ dispatchLog = <<>>
  /\ result = [t \in Tests |-> "none"]
  /\ begins = [t \in Tests |-> 0]
  /\ ends = [t \in Tests |-> 0]
  /\ tdCtx = "none"
  /\ tdStep = "none"
  /\ tdQueue = <<>>
  /\ tdRuns = 0
  /\ tdDone = 0
  /\ tdLog = <<>>
  /\ tdFailures = 0
  /\ tdSeen = [fn |-> "unread", gt |-> "unread", globalTeardown |-> FALSE]
  /\ exitPath = "none"
  /\ errCount = [e \in ErrKinds |-> 0]
  /\ begun = FALSE
  /\ ended = FALSE
  /\ exited = FALSE
  /\ earlyTestEvent = FALSE
  /\ lateTestEvent = FALSE
  /\ eventAfterExit = FALSE
  /\ out = <<>>

\* config.shard is null
NoShard == [current |-> 0, total |-> 0]

\* The collection functions are not run on their own.
IoUnused ==
  /\ options = <<>>
  /\ returned = <<>>
  /\ transport = <<>>

FnUnused ==
  /\ IoUnused
  /\ fnPc = "unused"
  /\ workers = 1
  /\ shard = NoShard
  /\ projectSuites = <<>>
  /\ rootSuite = <<>>
  /\ concurrentTestGroups = <<>>
  /\ before = <<>>

Init == RunnerInit /\ FnUnused

----------------------------------------------------------------------------
\* runAllTests (lines 178-199)

FullResultIgnoringTimeout(timeout, runStatus) == runStatus

\* lines 183-188
FullResultStatus(timeout, runStatus) == IF timeout THEN "timedout" ELSE runStatus

\* _run returns st after reporting evs.  When the timer has not fired,
\* raceAgainstTimeout resolves with it and runAllTests goes on to onEnd
\* (lines 187-189) before anything else can run.
Return(st, evs) ==
  /\ pc' = "done"
  /\ runResult' = st
  /\ IF pcOuter = "racing"
     THEN /\ fullResult' = FullResultStatus(FALSE, st)
          /\ pcOuter' = "flushing"
          /\ Report(evs \o <<OnEnd(fullResult')>>)
     ELSE /\ UNCHANGED <<fullResult, pcOuter>>
          /\ Report(evs)

\* _run goes on after reporting evs.
Continue(evs) ==
  /\ Report(evs)
  /\ UNCHANGED <<runResult, fullResult, pcOuter>>

----------------------------------------------------------------------------
\* _run: collection, onBegin, the bail-outs before global setup

\* tearDown() is called.
EnterTearDown(ctx) ==
  /\ pc' = "teardown"
  /\ tdCtx' = ctx
  /\ tdStep' = "fn"
  /\ tdRuns' = tdRuns + 1
  /\ UNCHANGED <<tdQueue, tdDone, tdLog, tdFailures, tdSeen>>

OnlyFilterAlways(list) == TRUE

\* lines 299-300: filterOnly is skipped in list mode
OnlyFilterApplied(list) == ~list

ReportFatalErrorsReversed(errors) ==
  [i \in 1..Len(errors) |-> OnError(errors[Len(errors) + 1 - i])]

\* lines 415-416
ReportFatalErrors(errors) == [i \in 1..Len(errors) |-> OnError(errors[i])]

\* _run up to its first await after collection: onBegin, the bail-outs, the
\* call of _removeOutputDirs, whose promise is not awaited (line 426: the
\* negation of a promise is false), and _performGlobalSetup up to the race of
\* the first plugin's setup.
CollectAndBegin ==
  /\ pc = "collect"
  /\ stages' = collectTestGroups(projects)
  /\ \E errors \in FatalOutcomes, list \in BOOLEAN :
       LET evs == <<OnBegin>> \o ReportFatalErrors(errors)
       IN  /\ fatalErrors' = errors
           /\ listOnly' = list
           /\ onlyFiltered' = OnlyFilterApplied(list)
           /\ IF errors # <<>> \/ list
              THEN /\ Return(IF errors # <<>> THEN "failed" ELSE "passed", evs)
                   /\ exitPath' = IF errors # <<>> THEN "fatal" ELSE "list"
                   /\ UNCHANGED <<rmdir, status, setupVars>>
              ELSE /\ Continue(evs)
                   /\ rmdir' = IF config.outputDirs THEN "running" ELSE "removed"
                   /\ status' = "passed"
                   /\ setupW' = [armed |-> TRUE, had |-> FALSE, at |-> "none"]
                   /\ pluginIdx' = 1
                   /\ setupState' = [setupState EXCEPT ![1] = "running"]
                   /\ pc' = "pluginSetup"
                   /\ UNCHANGED <<exitPath, setUp, globalSetupResult, hookState>>
  /\ UNCHANGED <<cfgVars, fnVars, caught, timedOut, loopVars, result, tdVars>>

\* The removal started by _removeOutputDirs ends (lines 511-527), whatever
\* _run is doing meanwhile; its boolean result is dropped.
RemoveOutputDirsEnds ==
  /\ rmdir = "running"
  /\ \E outcome \in {"removed", "busyFallback", "error"} :
       /\ rmdir' = outcome
       /\ ReportOuter(IF outcome = "error" THEN <<OnError("rmdir")>> ELSE <<>>)
  /\ UNCHANGED <<cfgVars, fnVars, innerVars, outerVars>>

----------------------------------------------------------------------------
\* _performGlobalSetup

\* line 590: result.status !== 'passed' || sigintWatcher.hadSignal()
SetupAborted(st, hadSignal) == st # "passed" \/ hadSignal

SetupFailureStatusInverted(hadSignal) == IF hadSignal THEN "failed" ELSE "interrupted"

\* line 592
SetupFailureStatus(hadSignal) == IF hadSignal THEN "interrupted" ELSE "failed"

PluginLoopNextNoBreak(i, hadSignal) ==
  IF i < NumPlugins THEN "next" ELSE "globalSetup"

\* lines 563-571: where the plugin loop goes after the race of plugin i
PluginLoopNext(i, hadSignal) ==
  IF hadSignal THEN "break"
  ELSE IF i < NumPlugins THEN "next" ELSE "globalSetup"

\* The callback of line 560 has ended with result.status = st: lines 588-596,
\* and for a successful setup line 432.
AfterSetup(st, w) ==
  /\ setupW' = [w EXCEPT !.armed = FALSE]
  /\ IF SetupAborted(st, w.had)
     THEN /\ EnterTearDown("setup")
          /\ exitPath' = IF w.had THEN "setupSignal" ELSE "setupFailed"
     ELSE /\ pc' = "loopHead"
          /\ UNCHANGED <<tdVars, exitPath>>

\* Lines 573-585, entered with the watcher w; configured is config.globalSetup.
GlobalSetupStep(w, configured) ==
  IF ~w.had /\ configured
  THEN /\ pc' = "loadHook"
       /\ setupW' = w
       /\ UNCHANGED <<globalSetupResult, tdVars, exitPath>>
  ELSE /\ globalSetupResult' = IF w.had THEN globalSetupResult ELSE "noop"
       /\ AfterSetup(status, w)

\* The race of plugin i's setup against the signal is over.
PluginRaceOver(i, w, stateOfI, globalSetup) ==
  LET next == PluginLoopNext(i, w.had)
  IN  /\ setUp' = IF next = "break" THEN setUp ELSE Append(setUp, i)
      /\ IF next = "next"
         THEN /\ pluginIdx' = i + 1
              /\ setupState' = [setupState EXCEPT ![i] = stateOfI, ![i + 1] = "running"]
              /\ setupW' = w
              /\ UNCHANGED <<pc, globalSetupResult, tdVars, exitPath>>
         ELSE /\ setupState' = [setupState EXCEPT ![i] = stateOfI]
              /\ UNCHANGED pluginIdx
              /\ GlobalSetupStep(w, globalSetup)

PluginSetupCompletes ==
  /\ pc = "pluginSetup"
  /\ setupState[pluginIdx] = "running"
  /\ \E globalSetup \in BOOLEAN : PluginRaceOver(pluginIdx, setupW, "done", globalSetup)
  /\ Continue(<<>>)
  /\ UNCHANGED <<cfgVars, fnVars, rmdir, collectVars, status, caught, timedOut, hookState, loopVars, result>>

\* _runAndReportError catches the error of the callback of line 560.
PluginSetupThrows ==
  /\ pc = "pluginSetup"
  /\ setupState[pluginIdx] = "running"
  /\ ~setupW.had
  /\ setupState' = [setupState EXCEPT ![pluginIdx] = "threw"]
  /\ status' = "failed"
  /\ Continue(<<OnError("setup")>>)
  /\ AfterSetup("failed", setupW)
  /\ UNCHANGED <<cfgVars, fnVars, rmdir, collectVars, caught, timedOut, pluginIdx, setUp,
                 globalSetupResult, hookState, loopVars, result>>

\* The signal wins the race of line 564; the plugin's setup stays in flight.
SigintDuringPluginSetup ==
  /\ pc = "pluginSetup"
  /\ setupW.armed /\ ~setupW.had
  /\ \E globalSetup \in BOOLEAN :
       PluginRaceOver(pluginIdx, [setupW EXCEPT !.had = TRUE, !.at = "plugin"],
                      setupState[pluginIdx], globalSetup)
  /\ Continue(<<>>)
  /\ UNCHANGED <<cfgVars, fnVars, rmdir, collectVars, status, caught, timedOut, hookState, loopVars, result>>

\* The signal arrives while line 576 awaits loadGlobalHook: nothing is raced there.
SigintDuringLoadHook ==
  /\ pc = "loadHook"
  /\ setupW.armed /\ ~setupW.had
  /\ setupW' = [setupW EXCEPT !.had = TRUE, !.at = "loadHook"]
  /\ Continue(<<>>)
  /\ UNCHANGED <<cfgVars, fnVars, rmdir, collectVars, pc, status, caught, timedOut, exitPath, pluginIdx,
                 setupState, setUp, globalSetupResult, hookState, loopVars, result,
                 tdVars>>

\* loadGlobalHook resolves and the hook is started (line 578); a watcher that
\* already had the signal wins the race at once.
GlobalSetupHookStarts ==
  /\ pc = "loadHook"
  /\ hookState' = "running"
  /\ Continue(<<>>)
  /\ IF setupW.had
     THEN AfterSetup(status, setupW)
     ELSE pc' = "hookRace" /\ UNCHANGED <<setupW, tdVars, exitPath>>
  /\ UNCHANGED <<cfgVars, fnVars, rmdir, collectVars, status, caught, timedOut, pluginIdx, setupState,
                 setUp, globalSetupResult, loopVars, result>>

GlobalSetupLoadThrows ==
  /\ pc = "loadHook"
  /\ status' = "failed"
  /\ Continue(<<OnError("setup")>>)
  /\ AfterSetup("failed", setupW)
  /\ UNCHANGED <<cfgVars, fnVars, rmdir, collectVars, caught, timedOut, pluginIdx, setupState, setUp,
                 globalSetupResult, hookState, loopVars, result>>

\* The hook wins the race: globalSetupResult = r || '<noop>' (line 578).  Whether
\* r is a function is first looked at by tearDown.
GlobalSetupHookCompletes ==
  /\ pc = "hookRace"
  /\ globalSetupResult' = "set"
  /\ hookState' = "done"
  /\ Continue(<<>>)
  /\ AfterSetup(status, setupW)
  /\ UNCHANGED <<cfgVars, fnVars, rmdir, collectVars, status, caught, timedOut, pluginIdx, setupState,
                 setUp, loopVars, result>>

GlobalSetupHookThrows ==
  /\ pc = "hookRace"
  /\ hookState' = "threw"
  /\ status' = "failed"
  /\ Continue(<<OnError("setup")>>)
  /\ AfterSetup("failed", setupW)
  /\ UNCHANGED <<cfgVars, fnVars, rmdir, collectVars, caught, timedOut, pluginIdx, setupState, setUp,
                 globalSetupResult, loopVars, result>>

\* The signal wins the race of line 577; the hook stays in flight.
SigintDuringGlobalSetupHook ==
  /\ pc = "hookRace"
  /\ setupW.armed /\ ~setupW.had
  /\ Continue(<<>>)
  /\ AfterSetup(status, [setupW EXCEPT !.had = TRUE, !.at = "hook"])
  /\ UNCHANGED <<cfgVars, fnVars, rmdir, collectVars, status, caught, timedOut, pluginIdx, setupState,
                 setUp, globalSetupResult, hookState, loopVars, result>>

\* A plugin setup that lost its race to the signal ends later, unobserved.
LatePluginSetupEnds ==
  /\ \E i \in Plugins :
       /\ setupState[i] = "running"
       /\ ~(pc = "pluginSetup" /\ pluginIdx = i)
       /\ \E s \in {"done", "threw"} : setupState' = [setupState EXCEPT ![i] = s]
  /\ UNCHANGED <<cfgVars, fnVars, rmdir, collectVars, pc, status, caught, runResult, exitPath, pluginIdx,
                 setUp, globalSetupResult, hookState, setupW, loopVars, result,
                 tdVars, outerVars, out>>
  /\ Emit(<<>>)

\* A globalSetup hook that lost its race to the signal ends later: the
\* continuation of line 578 still assigns globalSetupResult; an error is dropped.
LateGlobalSetupHookEnds ==
  /\ hookState = "running"
  /\ pc # "hookRace"
  /\ \/ /\ hookState' = "done"
        /\ \E r \in {"fn", "noop"} : globalSetupResult' = r
     \/ /\ hookState' = "threw"
        /\ UNCHANGED globalSetupResult
  /\ UNCHANGED <<cfgVars, fnVars, rmdir, collectVars, pc, status, caught, runResult, exitPath, pluginIdx,
                 setupState, setUp, setupW, loopVars, result, tdVars, outerVars, out>>
  /\ Emit(<<>>)

----------------------------------------------------------------------------
\* tearDown (lines 536-552)

TdStep(name, plugin) == [name |-> name, plugin |-> plugin]

NextTearDownStepStopsOnError(step, ok, queueLeft) ==
  IF ~ok THEN "end"
  ELSE IF step = "fn" THEN "gt"
  ELSE IF queueLeft = <<>> THEN "end" ELSE "plugins"

\* Each step is wrapped in its own _runAndReportError: the next one follows
\* whether or not the step threw.
NextTearDownStep(step, ok, queueLeft) ==
  IF step = "fn" THEN "gt"
  ELSE IF queueLeft = <<>> THEN "end" ELSE "plugins"

\* One _runAndReportError of tearDown: the step entry is run when it applies,
\* and queueLeft are the plugins still to tear down after it.  After the last
\* one tearDown returns: into lines 592-593 and 432-433, or out of the finally
\* block of _run.
TearDownStep(applies, entry, queueLeft) ==
  \E ok \in (IF applies THEN BOOLEAN ELSE {TRUE}) :
    LET next == NextTearDownStep(tdStep, ok, queueLeft)
        st == IF ok THEN status ELSE "failed"
        evs == IF ok THEN <<>> ELSE <<OnError("teardown")>>
    IN  /\ tdLog' = IF applies THEN Append(tdLog, entry) ELSE tdLog
        /\ tdFailures' = tdFailures + (IF ok THEN 0 ELSE 1)
        /\ tdQueue' = queueLeft
        /\ IF next = "end"
           THEN /\ tdStep' = "returned"
                /\ tdDone' = tdDone + 1
                /\ status' = IF tdCtx = "setup" THEN SetupFailureStatus(setupW.had) ELSE st
                /\ Return(IF tdCtx = "finally" /\ caught THEN "failed" ELSE status', evs)
           ELSE /\ tdStep' = next
                /\ status' = st
                /\ Continue(evs)
                /\ UNCHANGED <<pc, tdDone>>

tdFrame ==
  <<cfgVars, fnVars, rmdir, collectVars, caught, timedOut, exitPath, pluginIdx, setupState, setUp,
    hookState, setupW, loopVars, result, tdCtx, tdRuns>>

\* lines 537-540
TearDownReturnedFunction ==
  /\ pc = "teardown"
  /\ tdStep = "fn"
  /\ \E r \in (IF globalSetupResult = "set" THEN {"fn", "noop"} ELSE {globalSetupResult}) :
       /\ globalSetupResult' = r
       /\ tdSeen' = [tdSeen EXCEPT !.fn = r]
       /\ TearDownStep(r = "fn", TdStep("returnedFunction", 0), tdQueue)
  /\ UNCHANGED tdFrame

\* lines 542-545, and the evaluation of pluginsThatWereSetUp.reverse()
TearDownGlobalHook ==
  /\ pc = "teardown"
  /\ tdStep = "gt"
  /\ \E globalTeardown \in BOOLEAN :
       /\ tdSeen' = [tdSeen EXCEPT !.gt = globalSetupResult, !.globalTeardown = globalTeardown]
       /\ TearDownStep(globalSetupResult # "undef" /\ globalTeardown,
                       TdStep("globalTeardown", 0), Reverse(setUp))
  /\ UNCHANGED <<tdFrame, globalSetupResult>>

\* lines 547-551
TearDownPlugin ==
  /\ pc = "teardown"
  /\ tdStep = "plugins"
  /\ TearDownStep(TRUE, TdStep("plugin", Head(tdQueue)), Tail(tdQueue))
  /\ UNCHANGED <<tdFrame, globalSetupResult, tdSeen>>

----------------------------------------------------------------------------
\* _run: the stage loop (lines 444-483)

Last(s) == s[Len(s)]

SetLastState(log, st) == [log EXCEPT ![Len(log)].state = st]

AnyNotOk(res, tests) == \E i \in DOMAIN tests : ~TestOk(res, tests[i])

\* lines 471-476, and the finally block
LeaveLoop(hadSignal, workerErrors, path) ==
  /\ status' = StageStatus(hadSignal, workerErrors, \E t \in Tests : ~TestOk(result, t))
  /\ exitPath' = path
  /\ EnterTearDown("finally")

\* lines 449-456: from the head of the loop to the race of the next dispatcher
StageLoopHead ==
  /\ pc = "loopHead"
  /\ LET h == LoopHead(stages, k, previousStageFailed)
     IN  /\ k' = h.k
         /\ result' = [t \in Tests |->
                         IF \E i \in DOMAIN h.events : h.events[i].test = t
                         THEN "skipped" ELSE result[t]]
         /\ Continue(h.events)
         /\ IF h.groups = <<>>
            THEN /\ LeaveLoop(stageW.created /\ stageW.had, hasWorkerErrors, "completed")
                 /\ UNCHANGED <<stageW, dispRan, dispatchLog>>
            ELSE /\ dispatchLog' = Append(dispatchLog,
                                     [stage |-> h.k, groups |-> h.groups, state |-> "running"])
                 /\ stageW' = [created |-> TRUE, armed |-> TRUE, had |-> FALSE]
                 /\ dispRan' = FALSE
                 /\ pc' = "dispatching"
                 /\ UNCHANGED <<status, exitPath, tdVars>>
  /\ UNCHANGED <<cfgVars, fnVars, rmdir, collectVars, caught, timedOut, setupVars, previousStageFailed,
                 hasWorkerErrors>>

\* The dispatcher runs the tests of its groups.
DispatcherRuns ==
  /\ pc = "dispatching"
  /\ ~dispRan
  /\ LET tests == GroupTests(Last(dispatchLog).groups)
     IN  \E failed \in SUBSET Range(tests) :
           /\ result' = [t \in Tests |->
                           IF t \in failed THEN "failed"
                           ELSE IF t \in Range(tests) THEN "passed" ELSE result[t]]
           /\ Continue(Flatten([i \in 1..Len(tests) |->
                                  <<OnTestBegin(tests[i]), OnTestEnd(tests[i], result'[tests[i]])>>]))
  /\ dispRan' = TRUE
  /\ UNCHANGED <<cfgVars, fnVars, rmdir, collectVars, pc, status, caught, timedOut, exitPath, setupVars,
                 stageW, k, previousStageFailed, hasWorkerErrors, dispatchLog, tdVars>>

\* dispatcher.run() wins the race (lines 456-461).
DispatcherRunResolves ==
  /\ pc = "dispatching"
  /\ dispRan
  /\ stageW' = [stageW EXCEPT !.armed = FALSE]
  /\ dispatchLog' = SetLastState(dispatchLog, "stopping")
  /\ pc' = "stopping"
  /\ Continue(<<>>)
  /\ UNCHANGED <<cfgVars, fnVars, rmdir, collectVars, status, caught, timedOut, exitPath, setupVars, k,
                 previousStageFailed, hasWorkerErrors, dispRan, result, tdVars>>

\* The signal wins the race of line 456.
SigintDuringStage ==
  /\ pc = "dispatching"
  /\ stageW.armed /\ ~stageW.had
  /\ stageW' = [stageW EXCEPT !.had = TRUE]
  /\ dispatchLog' = SetLastState(dispatchLog, "stopping")
  /\ pc' = "stopping"
  /\ Continue(<<>>)
  /\ UNCHANGED <<cfgVars, fnVars, rmdir, collectVars, status, caught, timedOut, exitPath, setupVars, k,
                 previousStageFailed, hasWorkerErrors, dispRan, result, tdVars>>

CatchTargetSkipsFinally == "done"

\* lines 477-482: the finally block runs after the catch block
CatchTarget == "teardown"

\* dispatcher.run() or dispatcher.stop() rejects.
DispatcherThrows ==
  /\ pc \in {"dispatching", "stopping"}
  /\ caught' = TRUE
  /\ dispatchLog' = SetLastState(dispatchLog, "threw")
  /\ exitPath' = "exception"
  /\ IF CatchTarget = "teardown"
     THEN EnterTearDown("finally") /\ Continue(<<OnError("dispatch")>>)
     ELSE Return("failed", <<OnError("dispatch")>>) /\ UNCHANGED tdVars
  /\ UNCHANGED <<cfgVars, fnVars, rmdir, collectVars, status, timedOut, setupVars, stageW, k,
                 previousStageFailed, hasWorkerErrors, dispRan, result>>

LeavesStageLoopOnWorkerErrorsOnly(workerErrors, hadSignal) == workerErrors

\* lines 463-467: the two breaks
LeavesStageLoop(workerErrors, hadSignal) == workerErrors \/ hadSignal

\* dispatcher.stop() resolves (lines 462-469).
DispatcherStopResolves ==
  /\ pc = "stopping"
  /\ dispatchLog' = SetLastState(dispatchLog, "stopped")
  /\ Continue(<<>>)
  /\ \E workerErrors \in BOOLEAN :
       /\ hasWorkerErrors' = workerErrors
       /\ IF LeavesStageLoop(workerErrors, stageW.had)
          THEN /\ LeaveLoop(stageW.had, workerErrors,
                            IF workerErrors THEN "workerErrors" ELSE "signal")
               /\ UNCHANGED <<k, previousStageFailed>>
          ELSE /\ previousStageFailed' =
                    (previousStageFailed
                       \/ AnyNotOk(result, GroupTests(Last(dispatchLog).groups)))
               /\ k' = k + 1
               /\ pc' = "loopHead"
               /\ UNCHANGED <<status, exitPath, tdVars>>
  /\ UNCHANGED <<cfgVars, fnVars, rmdir, collectVars, caught, timedOut, setupVars, stageW, dispRan, result>>

----------------------------------------------------------------------------
\* runAllTests: the global timeout and the end of the run

\* The timer of raceAgainstTimeout fires first (lines 183-189); _run is not
\* cancelled.
GlobalTimeoutElapses ==
  /\ config.globalTimeout
  /\ pcOuter = "racing"
  /\ timedOut' = TRUE
  /\ fullResult' = FullResultStatus(TRUE, runResult)
  /\ pcOuter' = "flushing"
  /\ ReportOuter(<<OnError("timeout"), OnEnd(fullResult')>>)
  /\ UNCHANGED <<cfgVars, fnVars, rmdir, innerVars>>

\* lines 191-198
ReporterExit ==
  /\ pcOuter = "flushing"
  /\ pcOuter' = "returned"
  /\ ReportOuter(<<OnExit>>)
  /\ UNCHANGED <<cfgVars, fnVars, rmdir, innerVars, fullResult, timedOut>>

----------------------------------------------------------------------------

RunNext ==
  \/ CollectAndBegin
  \/ PluginSetupCompletes
  \/ PluginSetupThrows
  \/ SigintDuringPluginSetup
  \/ SigintDuringLoadHook
  \/ GlobalSetupHookStarts
  \/ GlobalSetupLoadThrows
  \/ GlobalSetupHookCompletes
  \/ GlobalSetupHookThrows
  \/ SigintDuringGlobalSetupHook
  \/ TearDownReturnedFunction
  \/ TearDownGlobalHook
  \/ TearDownPlugin
  \/ StageLoopHead
  \/ DispatcherRuns
  \/ DispatcherRunResolves
  \/ SigintDuringStage
  \/ DispatcherThrows
  \/ DispatcherStopResolves

Next ==
  \/ RunNext
  \/ LatePluginSetupEnds
  \/ LateGlobalSetupHookEnds
  \/ RemoveOutputDirsEnds
  \/ GlobalTimeoutElapses
  \/ ReporterExit

Spec == Init /\ [][Next]_vars

----------------------------------------------------------------------------
\* Properties of the stage loop

Ordinal(g) == projects[g.projectId].stage

\* The index in stages of the stage of project p.
StageOf(p) ==
  CHOOSE i \in 1..Len(stages) : \E j \in DOMAIN stages[i] : stages[i][j].projectId = p

\* The stages the loop has been through, the one being dispatched included.
VisitedStages ==
  {s \in 1..Len(stages) :
     exitPath = "completed" \/ \E i \in DOMAIN dispatchLog : dispatchLog[i].stage >= s}

\* Dispatcher i ran a test that is not ok.
FailedIn(i) == AnyNotOk(result, GroupTests(dispatchLog[i].groups))

\* C1: a dispatcher is constructed only when every earlier one has stopped
\* (after its run() resolved or a signal won the race), the dispatchers take the
\* stages in strictly ascending ordinal order, the groups of one dispatcher
\* share one ordinal, and projects with equal ordinals are in one stage, the
\* stages being in ascending order of ordinal.
C1_StageOrder ==
  /\ \A i \in DOMAIN dispatchLog :
       /\ i < Len(dispatchLog) => dispatchLog[i].state = "stopped"
       /\ \A a, b \in DOMAIN dispatchLog[i].groups :
            Ordinal(dispatchLog[i].groups[a]) = Ordinal(dispatchLog[i].groups[b])
       /\ \A j \in DOMAIN dispatchLog :
            i < j => \A a \in DOMAIN dispatchLog[i].groups, b \in DOMAIN dispatchLog[j].groups :
                       Ordinal(dispatchLog[i].groups[a]) < Ordinal(dispatchLog[j].groups[b])
  /\ stages # <<>> =>
       \A p, q \in Projects :
         /\ projects[p].stage = projects[q].stage <=> StageOf(p) = StageOf(q)
         /\ projects[p].stage < projects[q].stage <=> StageOf(p) < StageOf(q)

\* Three dispatchers have run, for projects configured out of stage order.
C1_Witness ==
  /\ Len(dispatchLog) = 3
  /\ projects[1].stage = 2
  /\ dispatchLog[3].state = "stopped"

\* C2 (amended): once a test of a dispatched stage is not ok, in every later
\* stage the loop reaches only the groups with run = 'always' are dispatched,
\* all of them and in their order, and each test of the other groups gets one
\* onTestBegin immediately followed by one onTestEnd 'skipped'; no test is both
\* skipped and dispatched.
C2_CascadeSkip ==
  /\ \A i, j \in DOMAIN dispatchLog :
       (i < j /\ FailedIn(i)) =>
          dispatchLog[j].groups =
            SelectSeq(stages[dispatchLog[j].stage], LAMBDA g : g.run = "always")
  /\ \A i \in DOMAIN dispatchLog : \A s \in VisitedStages :
       (dispatchLog[i].stage < s /\ FailedIn(i) /\ dispatchLog[i].state = "stopped") =>
          \A a \in DOMAIN stages[s] :
            stages[s][a].run # "always" =>
              \A b \in DOMAIN stages[s][a].tests :
                LET t == stages[s][a].tests[b]
                IN  result[t] = "skipped" /\ begins[t] = 1 /\ ends[t] = 1
  /\ \A n \in DOMAIN out :
       /\ (out[n].type = "onTestEnd" /\ out[n].status = "skipped") =>
            n > 1 /\ out[n - 1] = OnTestBegin(out[n].test)
       /\ (out[n].type = "onTestBegin" /\ result[out[n].test] = "skipped") =>
            n < Len(out) /\ out[n + 1] = OnTestEnd(out[n].test, "skipped")
  /\ \A t \in Tests :
       result[t] = "skipped" =>
          /\ begins[t] = 1 /\ ends[t] = 1
          /\ \A i \in DOMAIN dispatchLog : t \notin Range(GroupTests(dispatchLog[i].groups))

\* A test of the first stage failed, the second stage was skipped whole and the
\* third stage's 'always' group is dispatched.
C2_Witness ==
  /\ Len(dispatchLog) = 2
  /\ dispatchLog[2].stage = 3
  /\ FailedIn(1)
  /\ \E t \in Tests : result[t] = "skipped"

\* C2 as stated: after a test of a dispatched stage is not ok, every test of a
\* not-'always' group of every later stage has got its skipped events by the
\* time _run returns.
C2_EveryLaterStage ==
  pc = "done" =>
    \A i \in DOMAIN dispatchLog : \A s \in 1..Len(stages) :
      (dispatchLog[i].stage < s /\ FailedIn(i)) =>
         \A a \in DOMAIN stages[s] :
           stages[s][a].run # "always" =>
             \A b \in DOMAIN stages[s][a].tests :
               result[stages[s][a].tests[b]] = "skipped"

----------------------------------------------------------------------------
\* Properties of the final status

SignalReceived == setupW.had \/ (stageW.created /\ stageW.had)

AnyTestNotOk == \E t \in Tests : ~TestOk(result, t)

\* C3: a run that received the interrupt signal during global setup or while a
\* stage was dispatched, and did not time out, ends with status 'interrupted',
\* whatever the outcome of teardown (checked for the runs in which no
\* dispatcher throws).
C3_SignalGivesInterrupted ==
  (pc = "done" /\ SignalReceived /\ ~timedOut /\ ~caught) => fullResult = "interrupted"

\* C4 (amended): a run that left the stage loop without a signal and without an
\* exception, with no timeout and no teardown error, is 'failed' exactly when
\* the last dispatcher reported worker errors or some test is not ok, and
\* 'passed' otherwise; a test that was never run is ok.
C4_FinalStatus ==
  (/\ pc = "done"
   /\ exitPath \in {"completed", "workerErrors"}
   /\ ~SignalReceived
   /\ ~timedOut
   /\ tdFailures = 0)
  => /\ fullResult = IF hasWorkerErrors \/ AnyTestNotOk THEN "failed" ELSE "passed"
     /\ \A t \in Tests : result[t] = "none" => TestOk(result, t)

\* The loop was left on worker errors before the last stage, whose tests never
\* ran, and a test of a dispatched stage failed in another run state.
C4_Witness ==
  /\ pc = "done"
  /\ exitPath = "workerErrors"
  /\ tdFailures = 0
  /\ ~AnyTestNotOk
  /\ \E t \in Tests : result[t] = "none"
  /\ fullResult = "failed"

\* C4 as stated: the same for every run that reached the stage loop with no
\* signal, no timeout and no error in setup or teardown.
C4_EveryLoopExit ==
  (/\ pc = "done"
   /\ exitPath \in {"completed", "workerErrors", "signal", "exception"}
   /\ ~SignalReceived
   /\ ~timedOut
   /\ tdFailures = 0)
  => fullResult = IF hasWorkerErrors \/ AnyTestNotOk THEN "failed" ELSE "passed"

----------------------------------------------------------------------------
\* Properties of global setup and teardown

SetupStarted == pluginIdx >= 1

\* C5: tearDown is called at most once; when _run has returned after global
\* setup was started it was called once and has returned, whichever way _run
\* was left; an exception thrown while dispatching is reported through onError
\* and makes _run return 'failed'.
C5_TearDownOnce ==
  /\ tdRuns <= 1 /\ tdDone <= tdRuns
  /\ ~SetupStarted => tdRuns = 0
  /\ (pc = "done" /\ SetupStarted) =>
       /\ tdRuns = 1 /\ tdDone = 1 /\ tdStep = "returned"
       /\ exitPath \in {"setupFailed", "setupSignal", "completed", "workerErrors",
                        "signal", "exception"}
  /\ exitPath = "exception" =>
       /\ errCount["dispatch"] = 1
       /\ pc = "done" => runResult = "failed"

\* _run has returned after an exception thrown while dispatching.
C5_Witness ==
  /\ pc = "done"
  /\ exitPath = "exception"
  /\ tdDone = 1
  /\ Len(tdLog) >= 3


TearDownReturned == tdStep = "returned"

TdRank(e) ==
  IF e.name = "returnedFunction" THEN 1 ELSE IF e.name = "globalTeardown" THEN 2 ELSE 3

TdPlugins == SelectSeq(tdLog, LAMBDA e : e.name = "plugin")

TdHas(name) == \E i \in DOMAIN tdLog : tdLog[i].name = name

\* C6 (amended): the steps of tearDown run in the order returned function,
\* globalTeardown hook, plugins in reverse of setup order, each at most once;
\* when tearDown returns, the returned function has run if globalSetupResult
\* was a function, the hook has run if it is configured and globalSetupResult
\* was set, and every plugin that was set up has been torn down, whatever
\* steps failed; each failure is reported through onError and leaves the
\* status 'failed' for the rest of tearDown.
C6_TearDownSequence ==
  /\ \A i, j \in DOMAIN tdLog :
       i < j => /\ TdRank(tdLog[i]) <= TdRank(tdLog[j])
                /\ tdLog[i] # tdLog[j]
  /\ Len(TdPlugins) <= Len(setUp)
  /\ \A i \in DOMAIN TdPlugins : TdPlugins[i].plugin = Reverse(setUp)[i]
  /\ TearDownReturned =>
       /\ Len(TdPlugins) = Len(setUp)
       /\ TdHas("returnedFunction") <=> tdSeen.fn = "fn"
       /\ TdHas("globalTeardown") <=> (tdSeen.globalTeardown /\ tdSeen.gt # "undef")
  /\ errCount["teardown"] = tdFailures
  /\ (tdFailures > 0 /\ pc = "teardown") => status = "failed"
  /\ (tdFailures > 0 /\ TearDownReturned /\ tdCtx = "finally") =>
       status = "failed" /\ runResult = "failed"

\* Every one of the four steps failed and every one was run.
C6_Witness ==
  /\ TearDownReturned
  /\ tdFailures = 4
  /\ tdLog = <<TdStep("returnedFunction", 0), TdStep("globalTeardown", 0),
               TdStep("plugin", 2), TdStep("plugin", 1)>>

\* C6 as stated: whenever tearDown has returned and a globalTeardown hook is
\* configured, the hook has been run.
C6_HookAlwaysRun ==
  (TearDownReturned /\ tdSeen.globalTeardown) => TdHas("globalTeardown")

SetupThrew == hookState = "threw" \/ \E i \in Plugins : setupState[i] = "threw"

NoStageNoTestEvent ==
  /\ dispatchLog = <<>>
  /\ \A t \in Tests : begins[t] = 0 /\ ends[t] = 0

\* C7 (amended): when a plugin's setup or the globalSetup hook (or its loading)
\* throws before any interrupt signal was received, the error is reported once
\* through onError, no later plugin setup and no globalSetup is started, no
\* stage is dispatched, no test event is emitted, the plugins that were set up
\* are torn down, and _run returns 'failed', which is the final status unless
\* the global timeout elapsed.
C7_SetupError ==
  exitPath = "setupFailed" =>
    /\ errCount["setup"] = 1
    /\ ~setupW.had
    /\ NoStageNoTestEvent
    /\ \A i \in Plugins : i > pluginIdx => setupState[i] = "none"
    /\ setupState[pluginIdx] = "threw" => hookState = "none"
    /\ setUp = [i \in 1..Len(setUp) |-> i]
    /\ \A i \in Plugins : setupState[i] = "done" <=> i \in Range(setUp)
    /\ pc = "done" =>
         /\ TearDownReturned
         /\ [i \in DOMAIN TdPlugins |-> TdPlugins[i].plugin] = Reverse(setUp)
         /\ runResult = "failed"
         /\ ~timedOut => fullResult = "failed"

\* The second plugin's setup threw, the first plugin was torn down.
C7_Witness ==
  /\ pc = "done"
  /\ exitPath = "setupFailed"
  /\ setupState = <<"done", "threw">>
  /\ tdLog = <<TdStep("plugin", 1)>>
  /\ fullResult = "failed"

\* C7 as stated: in a run without timeout in which a plugin's setup or the
\* globalSetup hook threw, the error was reported once and the final status is
\* 'failed'.
C7_EveryThrowFails ==
  (pc = "done" /\ SetupThrew /\ ~timedOut) =>
     errCount["setup"] = 1 /\ fullResult = "failed"


\* C8: when the interrupt signal wins the race against a plugin's setup, no
\* later plugin setup and no globalSetup hook is started, the plugins set up
\* are exactly those before the interrupted one and they are torn down in
\* reverse order, no stage is dispatched, no setup error is reported, and _run
\* returns 'interrupted', which is the final status unless the global timeout
\* elapsed.
C8_SignalDuringPluginSetup ==
  setupW.at = "plugin" =>
    /\ \A i \in Plugins : i > pluginIdx => setupState[i] = "none"
    /\ hookState = "none" /\ globalSetupResult = "undef"
    /\ setUp = [i \in 1..(pluginIdx - 1) |-> i]
    /\ \A i \in DOMAIN tdLog : tdLog[i].name = "plugin" /\ tdLog[i].plugin < pluginIdx
    /\ NoStageNoTestEvent
    /\ errCount["setup"] = 0
    /\ pc \in {"teardown", "done"}
    /\ pc = "done" =>
         /\ TearDownReturned
         /\ [i \in DOMAIN tdLog |-> tdLog[i].plugin] = Reverse(setUp)
         /\ status = "interrupted" /\ runResult = "interrupted"
         /\ ~timedOut => fullResult = "interrupted"

\* The signal arrived during the second plugin's setup; the first plugin was
\* torn down, with an error, and the run is 'interrupted'.
C8_Witness ==
  /\ pc = "done"
  /\ setupW.at = "plugin"
  /\ pluginIdx = 2
  /\ tdLog = <<TdStep("plugin", 1)>>
  /\ tdFailures = 1
  /\ fullResult = "interrupted"

----------------------------------------------------------------------------
\* Properties of runAllTests

\* The runs of the project lists for which a global timeout is looked at.
TimeoutInit == Init /\ projects \in TimeoutProjects

\* Every continuation of _run is run once what it awaits has settled, also
\* after runAllTests has returned.
FairSpec == TimeoutInit /\ [][Next]_vars /\ WF_vars(RunNext)

C10_EventOrder == ~earlyTestEvent /\ ~lateTestEvent /\ ~eventAfterExit


----------------------------------------------------------------------------
\* Properties of the bail-outs before global setup

\* Nothing after the bail-outs of lines 414-422 was done.
NoWorkAfterBegin ==
  /\ rmdir = "none"
  /\ ~SetupStarted /\ hookState = "none" /\ setUp = <<>>
  /\ tdRuns = 0
  /\ NoStageNoTestEvent

\* What runAllTests adds to the last step of _run when the timer has not fired.
EndOfRun(st) == IF timedOut THEN <<>> ELSE <<OnEnd(st)>>

\* C11: when collection accumulated a fatal error, in list mode or not, _run
\* reports onBegin and then each fatal error through onError in the order of
\* accumulation and returns 'failed' (the final status unless the global
\* timeout elapsed); no output directory is removed, no plugin or global setup
\* runs, no stage is dispatched and no test event is emitted.
C11_FatalErrors ==
  /\ (fatalErrors # <<>>) <=> (exitPath = "fatal")
  /\ exitPath = "fatal" =>
       /\ pc = "done" /\ runResult = "failed"
       /\ out = <<OnBegin>> \o [i \in 1..Len(fatalErrors) |-> OnError(fatalErrors[i])]
                  \o EndOfRun("failed")
       /\ errCount["fatal"] = Len(fatalErrors)
       /\ ~timedOut => fullResult = "failed"
       /\ NoWorkAfterBegin

\* In list mode two different fatal errors were accumulated and reported.
C11_Witness ==
  /\ exitPath = "fatal"
  /\ listOnly
  /\ Len(fatalErrors) = 2
  /\ fatalErrors[1] # fatalErrors[2]
  /\ fullResult = "failed"

\* C12: in list mode without fatal error _run returns 'passed' right after
\* onBegin: no test event, no removal of output directories, no plugin or
\* global setup or teardown, no dispatcher, and filterOnly was not applied to
\* the suites.
C12_ListMode ==
  /\ (listOnly /\ fatalErrors = <<>>) <=> (exitPath = "list")
  /\ exitPath = "list" =>
       /\ pc = "done" /\ runResult = "passed"
       /\ out = <<OnBegin>> \o EndOfRun("passed")
       /\ \A e \in ErrKinds : e # "timeout" => errCount[e] = 0
       /\ ~timedOut => fullResult = "passed"
       /\ NoWorkAfterBegin
       /\ ~onlyFiltered

\* A list run has returned 'passed'.
C12_Witness ==
  /\ exitPath = "list"
  /\ pcOuter = "returned"
  /\ fullResult = "passed"
  /\ ~onlyFiltered

\* C13: when the removal of an output directory failed with an error other
\* than the directory-busy condition, the error was reported once and the run
\* ends 'failed' without global setup and without a dispatcher.
C13_RemovalErrorFailsRun ==
  (rmdir = "error" /\ pc = "done" /\ ~timedOut) =>
     /\ errCount["rmdir"] = 1
     /\ fullResult = "failed"
     /\ ~SetupStarted
     /\ dispatchLog = <<>>

\* the tests of the stages after stage s
LaterStageTests(s) ==
  {t \in Tests : \E i \in DOMAIN stages :
     i > s /\ t \in Range(GroupTests(stages[i]))}

\* the last dispatcher reported worker errors, or the signal came while its stage ran
StageInterrupted == stageW.created /\ (stageW.had \/ hasWorkerErrors)

\* C24: when a stage's dispatcher reports worker errors, or the signal came
\* during the stage, stop() of that dispatcher is awaited, no dispatcher is
\* constructed for a later stage, no test of a later stage gets a synthetic
\* skipped event, and once stop() is over tearDown runs from the finally block.
C24_InterruptedStageEndsLoop ==
  StageInterrupted =>
    /\ pc \notin {"loopHead", "dispatching"}
    /\ Last(dispatchLog).state \in {"stopping", "stopped", "threw"}
    /\ Last(dispatchLog).stage = k
    /\ \A t \in LaterStageTests(k) : begins[t] = 0 /\ ends[t] = 0 /\ result[t] = "none"
    /\ Last(dispatchLog).state \in {"stopped", "threw"} =>
         /\ tdCtx = "finally" /\ tdRuns = 1
         /\ pc \in {"teardown", "done"}
    /\ pc = "done" => tdDone = 1

\* the signal came during the first of two stages, whose test failed; stop()
\* resolved, tearDown has returned and the second stage was left alone
C24_Witness ==
  /\ pc = "done"
  /\ stageW.had /\ ~hasWorkerErrors
  /\ Len(stages) = 2
  /\ Len(dispatchLog) = 1
  /\ dispatchLog[1].stage = 1 /\ dispatchLog[1].state = "stopped"
  /\ \E t \in Tests : result[t] = "failed"
  /\ LaterStageTests(1) # {}
  /\ tdDone = 1

\* C25 as stated: whenever tearDown has invoked the globalTeardown hook in a
\* run whose globalSetup hook returned a function, the returned function was
\* invoked earlier in the same tearDown.
C25_ReturnedFunctionFirst ==
  \A i \in DOMAIN tdLog :
    (tdLog[i].name = "globalTeardown" /\ globalSetupResult = "fn") =>
      \E j \in 1..(i - 1) : tdLog[j].name = "returnedFunction"

\* C27 as stated: the removal of the output directories has finished before
\* the first plugin setup or the globalSetup hook starts and before a stage is
\* dispatched; no removal is in progress while tests run.
C27_RemovalFinishedFirst ==
  (SetupStarted \/ hookState # "none" \/ dispatchLog # <<>>) => rmdir # "running"

\* the number of times tearDown has invoked the teardown of plugin i
PluginTearDowns(i) ==
  Cardinality({n \in DOMAIN tdLog : tdLog[n].name = "plugin" /\ tdLog[n].plugin = i})

\* _run returns in this step
RunEnds == pc # "done" /\ pc' = "done"

\* C33 as stated: when _run ends, every plugin whose setup call had completed
\* successfully has had its teardown invoked exactly once, also when a signal
\* or the global timeout came while the setup was in progress; no teardown is
\* ever invoked twice.
C33_SetUpPluginsTornDown ==
  /\ [][RunEnds => \A i \in Plugins : setupState[i] = "done" => PluginTearDowns(i)' = 1]_vars
  /\ [](\A i \in Plugins : PluginTearDowns(i) <= 1)

\* no watcher of the run has received a signal
NoSignalReceived == ~setupW.had /\ ~stageW.had

\* line 455 is run in this step: a dispatcher and its watcher are constructed
StageWatcherCreated == Len(dispatchLog') > Len(dispatchLog)

\* C34 as stated: when _run has ended and no watcher received a signal, the
\* watcher of global setup and the watcher of every dispatched stage are
\* disarmed, also after a throw of a plugin setup, of the globalSetup hook or of
\* a dispatcher's run() or stop(); at most one watcher is armed at any time: a
\* stage watcher is created only when the watchers before it are disarmed.
C34_WatchersDisarmed ==
  /\ []((pc = "done" /\ NoSignalReceived) => (~setupW.armed /\ ~stageW.armed))
  /\ [](~(setupW.armed /\ stageW.armed))
  /\ [][StageWatcherCreated => (~setupW.armed /\ ~stageW.armed)]_vars

----------------------------------------------------------------------------
\* createTestGroups (lines 755-863)

Hashes == {"h1", "h2"}
Files == {"a.spec", "b.spec"}
RepeatIndexes == {0, 1}

\* What the walk from a test up its parents finds (lines 812-820): a suite in
\* parallel mode, a suite with a beforeAll or afterAll hook, a suite in serial
\* mode.
ParentWalks == [insideParallel : BOOLEAN, hasAllHooks : BOOLEAN, serial : BOOLEAN]

Placements ==
  [projectId : Projects, repeatEachIndex : RepeatIndexes, requireFile : Files,
   workerHash : Hashes]

\* projectSuite.allTests() of every project suite, in order: the tests of the
\* file suites built for the projects.  The tests of a file suite share its
\* project, repeat index and file; the ids count the tests in this order.
allTests(suites) ==
  Flatten([i \in 1..Len(suites) |->
        [j \in 1..Len(suites[i].tests) |->
           [id |-> suites[i].tests[j],
            projectId |-> suites[i].projectId,
            repeatEachIndex |-> suites[i].repeatEachIndex,
            requireFile |-> suites[i].requireFile,
            workerHash |-> suites[i].workerHash,
            insideParallel |-> suites[i].insideParallel,
            hasAllHooks |-> suites[i].hasAllHooks,
            outerMostSerialSuite |-> IF suites[i].serial THEN i ELSE 0]]])

MapKeysRepeated(s) == s

\* The keys of a Map, in insertion order.
RECURSIVE MapKeys(_)
MapKeys(s) ==
  IF s = <<>> THEN <<>>
  ELSE <<Head(s)>> \o MapKeys(SelectSeq(Tail(s), LAMBDA x : x # Head(s)))

createTestGroupRunDefault(projs, test) ==
  [workerHash |-> test.workerHash, requireFile |-> test.requireFile,
   repeatEachIndex |-> test.repeatEachIndex, projectId |-> test.projectId,
   run |-> "default", tests |-> <<>>, watchMode |-> FALSE]

\* createGroup, lines 782-792
createTestGroup(projs, test) ==
  [workerHash |-> test.workerHash, requireFile |-> test.requireFile,
   repeatEachIndex |-> test.repeatEachIndex, projectId |-> test.projectId,
   run |-> projs[test.projectId].run, tests |-> <<>>, watchMode |-> FALSE]

TestContainerIgnoringSerial(test) ==
  IF test.insideParallel
  THEN IF test.hasAllHooks THEN "parallelWithHooks" ELSE "parallel"
  ELSE "general"

\* lines 822-836: the container of its bucket a test is put into
TestContainer(test) ==
  IF test.insideParallel
  THEN IF test.hasAllHooks /\ test.outerMostSerialSuite = 0
       THEN "parallelWithHooks" ELSE "parallel"
  ELSE "general"

\* line 826: outerMostSerialSuite || test
ParallelKey(test) ==
  IF test.outerMostSerialSuite # 0 THEN <<"suite", test.outerMostSerialSuite>>
  ELSE <<"test", test.id>>

parallelWithHooksGroupSizeFloor(n, w) == n \div w

\* Math.ceil(n / workers)
parallelWithHooksGroupSize(n, w) == (n + w - 1) \div w

\* lines 852-859: groups holds the groups pushed so far, lastGroup is its last
RECURSIVE SplitParallelWithHooks(_, _, _, _)
SplitParallelWithHooks(projs, tests, size, groups) ==
  IF tests = <<>> THEN groups
  ELSE LET test == Head(tests)
           new == groups = <<>> \/ Len(groups[Len(groups)].tests) >= size
           pushed == IF new THEN Append(groups, createTestGroup(projs, test)) ELSE groups
       IN  SplitParallelWithHooks(projs, Tail(tests), size,
             [pushed EXCEPT ![Len(pushed)].tests = Append(@, test)])

\* lines 842-859 for one bucket, bucketTests being the tests put into it
BucketGroups(projs, bucketTests, w) ==
  LET general == SelectSeq(bucketTests, LAMBDA t : TestContainer(t) = "general")
      parallel == SelectSeq(bucketTests, LAMBDA t : TestContainer(t) = "parallel")
      keys == MapKeys([i \in 1..Len(parallel) |-> ParallelKey(parallel[i])])
      withHooks == SelectSeq(bucketTests, LAMBDA t : TestContainer(t) = "parallelWithHooks")
      Keyed(key) == SelectSeq(parallel, LAMBDA t : ParallelKey(t) = key)
  IN  (IF general # <<>>
       THEN <<[createTestGroup(projs, bucketTests[1]) EXCEPT !.tests = general]>>
       ELSE <<>>)
      \o [i \in 1..Len(keys) |->
            [createTestGroup(projs, Keyed(keys[i])[1]) EXCEPT !.tests = Keyed(keys[i])]]
      \o SplitParallelWithHooks(projs, withHooks,
           parallelWithHooksGroupSize(Len(withHooks), w), <<>>)

createTestGroups(projs, suites, w) ==
  LET tests == allTests(suites)
      hashes == MapKeys([i \in 1..Len(tests) |-> tests[i].workerHash])
      WithWorkerHash(h) == SelectSeq(tests, LAMBDA t : t.workerHash = h)
      FilesOf(h) == MapKeys([i \in 1..Len(WithWorkerHash(h)) |->
                               WithWorkerHash(h)[i].requireFile])
      WithRequireFile(h, f) == SelectSeq(WithWorkerHash(h), LAMBDA t : t.requireFile = f)
  IN  Flatten([i \in 1..Len(hashes) |->
        Flatten([j \in 1..Len(FilesOf(hashes[i])) |->
          BucketGroups(projs, WithRequireFile(hashes[i], FilesOf(hashes[i])[j]), w)])])

\* The projects and the configuration of a run that only collects.
RunnerIdle ==
  /\ RunnerInit
  /\ config = [globalTimeout |-> FALSE, outputDirs |-> FALSE]

FirstPlacement ==
  [projectId |-> 1, repeatEachIndex |-> 0, requireFile |-> "a.spec", workerHash |-> "h1"]

SuiteShape(placement, walk, ids) ==
  [projectId |-> placement.projectId, repeatEachIndex |-> placement.repeatEachIndex,
   requireFile |-> placement.requireFile, workerHash |-> placement.workerHash,
   insideParallel |-> walk.insideParallel, hasAllHooks |-> walk.hasAllHooks,
   serial |-> walk.serial, tests |-> ids]

\* The lists of file suites with n1 and n2 tests: none, one or two suites; a
\* built file suite has a test.
SuiteLists(n1, n2) ==
  IF n1 = 0 THEN {<<>>}
  ELSE IF n2 = 0
  THEN {<<SuiteShape(FirstPlacement, w1, [i \in 1..n1 |-> i])>> : w1 \in ParentWalks}
  ELSE {<<SuiteShape(FirstPlacement, w1, [i \in 1..n1 |-> i]),
          SuiteShape(p2, w2, [i \in 1..n2 |-> n1 + i])>> :
          w1 \in ParentWalks, w2 \in ParentWalks, p2 \in Placements}

GroupInit ==
  /\ RunnerIdle
  /\ IoUnused
  /\ projects = [p \in Projects |-> [stage |-> 0, run |-> IF p = 1 THEN "default" ELSE "always"]]
  /\ fnPc = "input"
  /\ workers \in 1..MaxWorkers
  /\ shard = NoShard
  /\ \E n1 \in 0..MaxTests, n2 \in 0..MaxTests :
       /\ n1 + n2 <= MaxTests
       /\ n1 = 0 => n2 = 0
       /\ projectSuites \in SuiteLists(n1, n2)
  /\ rootSuite = <<>>
  /\ concurrentTestGroups = <<>>
  /\ before = <<>>

runVars == <<cfgVars, rmdir, innerVars, outerVars, begins, ends, errCount, begun, ended,
             exited, earlyTestEvent, lateTestEvent, eventAfterExit, out>>

\* line 336, for the one stage of the projects
CreateTestGroups ==
  /\ fnPc = "input"
  /\ concurrentTestGroups' = <<createTestGroups(projects, projectSuites, workers)>>
  /\ fnPc' = "applied"
  /\ UNCHANGED <<runVars, ioVars, workers, shard, projectSuites, rootSuite, before>>

GroupNext == CreateTestGroups

GroupSpec == GroupInit /\ [][GroupNext]_vars

Emitted == concurrentTestGroups[1]

\* The loader puts the project and the repeat index into the worker hash.
HashHoldsProjectAndRepeat ==
  \A i, j \in DOMAIN projectSuites :
    projectSuites[i].workerHash = projectSuites[j].workerHash
      => /\ projectSuites[i].projectId = projectSuites[j].projectId
         /\ projectSuites[i].repeatEachIndex = projectSuites[j].repeatEachIndex

GroupPure(g) ==
  \A i \in DOMAIN g.tests :
    /\ g.tests[i].workerHash = g.workerHash
    /\ g.tests[i].requireFile = g.requireFile
    /\ g.tests[i].repeatEachIndex = g.repeatEachIndex
    /\ g.tests[i].projectId = g.projectId
    /\ g.run = projects[g.tests[i].projectId].run

WithHooks(h, f) ==
  SelectSeq(allTests(projectSuites),
    LAMBDA t : t.workerHash = h /\ t.requireFile = f /\ TestContainer(t) = "parallelWithHooks")

Chunks(h, f) ==
  SelectSeq(Emitted,
    LAMBDA g : g.workerHash = h /\ g.requireFile = f
                 /\ TestContainer(g.tests[1]) = "parallelWithHooks")

Ceil(n, w) == CHOOSE c \in 0..n : c * w >= n /\ (c = 0 \/ (c - 1) * w < n)

\* C19: the chunks of the n parallel-with-hooks tests of a bucket, in the
\* order emitted, concatenate to the list of these tests; each but the last
\* has ceil(n / workers) tests, the last has between 1 and ceil(n / workers),
\* and there are at most workers of them.
C19_Chunks ==
  fnPc = "applied" =>
    \A h \in Hashes, f \in Files :
      LET n == Len(WithHooks(h, f))
          chunks == Chunks(h, f)
      IN  /\ GroupTests(chunks) = WithHooks(h, f)
          /\ Len(chunks) <= workers
          /\ \A i \in DOMAIN chunks :
               IF i < Len(chunks) THEN Len(chunks[i].tests) = Ceil(n, workers)
               ELSE Len(chunks[i].tests) \in 1..Ceil(n, workers)

\* Five tests and two workers: chunks of three and two.
C19_Witness ==
  /\ fnPc = "applied"
  /\ workers = 2
  /\ \E h \in Hashes, f \in Files :
       /\ Len(WithHooks(h, f)) = 5
       /\ Len(Chunks(h, f)) = 2
       /\ Len(Chunks(h, f)[1].tests) = 3
       /\ Len(Chunks(h, f)[2].tests) = 2

----------------------------------------------------------------------------
\* The suite tree, filterSuiteWithOnlySemantics and filterOnly (lines 609-644)

\* The root suite is node 0.  A tree gives each node its kind, its parent, its
\* only mark and, for a suite, its suites, its tests and its entries, each in
\* order.
Nodes == 0..MaxNodes

SuitesOf(tree) == {n \in DOMAIN tree.kind : tree.kind[n] = "suite"}
TestsIn(tree) == {n \in DOMAIN tree.kind : tree.kind[n] = "test"}

\* The entries of suite n when the nodes are added in the order of their ids.
EntriesFrom(kind, parent, n) ==
  IF kind[n] = "suite"
  THEN SortSet({e \in Nodes \ {0} : parent[e] = n})
  ELSE <<>>

\* _addSuite and _addTest put the entry into suites or tests and into _entries.
WithSuitesAndTests(tree) ==
  [kind |-> tree.kind, parent |-> tree.parent, only |-> tree.only, project |-> tree.project,
   suites |-> [n \in DOMAIN tree.kind |->
                 SelectSeq(tree.entries[n], LAMBDA e : tree.kind[e] = "suite")],
   tests |-> [n \in DOMAIN tree.kind |->
                SelectSeq(tree.entries[n], LAMBDA e : tree.kind[e] = "test")],
   entries |-> tree.entries]

MakeTree(kind, parent, only) ==
  WithSuitesAndTests(
    [kind |-> kind, parent |-> parent, only |-> only, project |-> [n \in Nodes |-> 0],
     entries |-> [n \in Nodes |-> EntriesFrom(kind, parent, n)]])

\* Every tree of MaxNodes suites and tests under the root; the root itself is
\* not marked.
Trees ==
  {MakeTree(kind, parent, only) :
     kind \in {f \in [Nodes -> {"suite", "test"}] : f[0] = "suite"},
     parent \in {f \in [Nodes -> Nodes] : f[0] = 0 /\ \A n \in Nodes \ {0} : f[n] < n},
     only \in {f \in [Nodes -> BOOLEAN] : ~f[0]}}

WellFormed(tree) == \A n \in Nodes \ {0} : tree.kind[tree.parent[n]] = "suite"

RECURSIVE Descendants(_, _)
Descendants(tree, n) ==
  UNION {{e} \cup Descendants(tree, e) : e \in Range(tree.entries[n])}

\* The nodes of the tree under the root.
InTree(tree) == Descendants(tree, 0)

RECURSIVE Ancestors(_, _)
Ancestors(tree, n) ==
  IF n = 0 THEN {} ELSE {tree.parent[n]} \cup Ancestors(tree, tree.parent[n])

RECURSIVE onlySuitesWithoutSuiteFilter(_, _, _, _)
onlySuitesWithoutSuiteFilter(tree, suite, suiteFilter, testFilter) ==
  SelectSeq(tree.suites[suite],
    LAMBDA child :
      \/ onlySuitesWithoutSuiteFilter(tree, child, suiteFilter, testFilter) # <<>>
      \/ SelectSeq(tree.tests[child], LAMBDA t : t \in testFilter) # <<>>)

\* line 635.  The filters are given as the sets of suites and of tests they
\* accept.
onlyTests(tree, suite, testFilter) ==
  SelectSeq(tree.tests[suite], LAMBDA t : t \in testFilter)

\* line 634: the call on a child returns true when it found entries to keep
\* (lines 636-637, 641).
RECURSIVE onlySuites(_, _, _, _)
onlySuites(tree, suite, suiteFilter, testFilter) ==
  SelectSeq(tree.suites[suite],
    LAMBDA child :
      \/ onlySuites(tree, child, suiteFilter, testFilter) # <<>>
      \/ onlyTests(tree, child, testFilter) # <<>>
      \/ child \in suiteFilter)

\* lines 636 and 640: the entries of suite that are in onlySuites or in
\* onlyTests, in order.
onlyEntries(tree, suite, suiteFilter, testFilter) ==
  SelectSeq(tree.entries[suite],
    LAMBDA e : e \in Range(onlySuites(tree, suite, suiteFilter, testFilter))
                       \cup Range(onlyTests(tree, suite, testFilter)))

\* The call on the root visits every suite: a suite with onlyEntries is cut
\* down to them (lines 637-641), any other one is left as it is (line 643).
filterSuiteWithOnlySemantics(tree, suiteFilter, testFilter) ==
  LET Cut(n) == onlyEntries(tree, n, suiteFilter, testFilter) # <<>>
  IN  [tree EXCEPT
         !.suites = [n \in DOMAIN tree.kind |->
                       IF Cut(n) THEN onlySuites(tree, n, suiteFilter, testFilter)
                       ELSE tree.suites[n]],
         !.tests = [n \in DOMAIN tree.kind |->
                      IF Cut(n) THEN onlyTests(tree, n, testFilter) ELSE tree.tests[n]],
         !.entries = [n \in DOMAIN tree.kind |->
                        IF Cut(n) THEN onlyEntries(tree, n, suiteFilter, testFilter)
                        ELSE tree.entries[n]]]

filterOnly(tree) ==
  filterSuiteWithOnlySemantics(tree,
    {n \in SuitesOf(tree) : tree.only[n]}, {n \in TestsIn(tree) : tree.only[n]})

OnlyInit ==
  /\ RunnerIdle
  /\ IoUnused
  /\ projects = [p \in Projects |-> [stage |-> 0, run |-> "default"]]
  /\ fnPc = "input"
  /\ workers = 1
  /\ shard = NoShard
  /\ projectSuites = <<>>
  /\ rootSuite \in Trees
  /\ WellFormed(rootSuite)
  /\ concurrentTestGroups = <<>>
  /\ before = rootSuite

\* lines 299-301
FilterOnly ==
  /\ fnPc = "input"
  /\ rootSuite' = filterOnly(rootSuite)
  /\ fnPc' = "applied"
  /\ UNCHANGED <<runVars, ioVars, workers, shard, projectSuites, concurrentTestGroups, before>>

OnlyNext == FilterOnly

OnlySpec == OnlyInit /\ [][OnlyNext]_vars

\* Node n is marked only, or holds a node that is.
Focused(tree, n) == tree.only[n] \/ \E d \in Descendants(tree, n) : tree.only[d]

\* C20: after the only filter, on a tree with a test or suite marked only,
\* every test and suite marked only is still in the tree (with its ancestors,
\* the entries being the only way down), every test in the tree is marked only
\* or has an ancestor suite marked only, and a suite of the tree that held a
\* focused entry holds exactly its focused entries, in their order.
C20_OnlyFilter ==
  (fnPc = "applied" /\ \E n \in Nodes : before.only[n]) =>
    /\ \A n \in Nodes : before.only[n] =>
         /\ n \in InTree(rootSuite)
         /\ Ancestors(before, n) \ {0} \subseteq InTree(rootSuite)
    /\ \A t \in InTree(rootSuite) \cap TestsIn(before) :
         before.only[t] \/ \E a \in Ancestors(before, t) : before.only[a]
    /\ \A s \in (InTree(rootSuite) \cup {0}) \cap SuitesOf(before) :
         (\E e \in Range(before.entries[s]) : Focused(before, e))
           => rootSuite.entries[s] =
                SelectSeq(before.entries[s], LAMBDA e : Focused(before, e))

\* A suite marked only keeps a test that is not, and an entry next to the
\* suite is gone.
C20_Witness ==
  /\ fnPc = "applied"
  /\ \E t \in InTree(rootSuite) \cap TestsIn(before) :
       ~before.only[t] /\ before.only[before.parent[t]]
  /\ InTree(rootSuite) # InTree(before)

----------------------------------------------------------------------------
\* _filterForCurrentShard (lines 342-394)

RECURSIVE Sum(_)
Sum(s) == IF s = <<>> THEN 0 ELSE Head(s) + Sum(Tail(s))

\* suite.allTests().length
TestCount(tree, suite) == Cardinality(Descendants(tree, suite) \cap TestsIn(tree))

\* lines 350-354
ShardableTotal(projs, tree) ==
  Sum([i \in 1..Len(tree.entries[0]) |->
        IF projs[tree.project[tree.entries[0][i]]].run # "always"
        THEN TestCount(tree, tree.entries[0][i]) ELSE 0])

\* line 359
ShardSize(shardableTotal, sh) == shardableTotal \div sh.total

\* line 361
ExtraOne(shardableTotal, sh) == shardableTotal - ShardSize(shardableTotal, sh) * sh.total

\* lines 363-364
ShardFrom(shardableTotal, sh) ==
  ShardSize(shardableTotal, sh) * (sh.current - 1)
    + Min({ExtraOne(shardableTotal, sh), sh.current - 1})

ShardToWithoutExtraOne(shardableTotal, sh) ==
  ShardFrom(shardableTotal, sh) + ShardSize(shardableTotal, sh)

\* line 365
ShardTo(shardableTotal, sh) ==
  ShardFrom(shardableTotal, sh) + ShardSize(shardableTotal, sh)
    + (IF sh.current - 1 < ExtraOne(shardableTotal, sh) THEN 1 ELSE 0)

\* The counter current when the loop reaches group j of stage s (lines 366,
\* 379): the tests of the groups before it that are not run always.
CurrentAt(groupStages, s, j) ==
  Sum([i \in 1..(s - 1) |->
        Sum([g \in 1..Len(groupStages[i]) |->
              IF groupStages[i][g].run = "always" THEN 0
              ELSE Len(groupStages[i][g].tests)])])
  + Sum([g \in 1..(j - 1) |->
          IF groupStages[s][g].run = "always" THEN 0 ELSE Len(groupStages[s][g].tests)])

includeGroupInShardByLastTest(group, current, from, to) ==
  \/ group.run = "always"
  \/ (current + Len(group.tests) - 1 >= from /\ current + Len(group.tests) - 1 < to)

\* lines 371-380
includeGroupInShard(group, current, from, to) ==
  \/ group.run = "always"
  \/ (current >= from /\ current < to)

\* lines 369-386 for stage s
ShardedStage(groupStages, s, from, to) ==
  LET kept == SelectSeq([j \in 1..Len(groupStages[s]) |-> j],
                LAMBDA j : includeGroupInShard(groupStages[s][j],
                             CurrentAt(groupStages, s, j), from, to))
  IN  [i \in 1..Len(kept) |-> groupStages[s][kept[i]]]

keepEveryShardedStage(shardedStages) == shardedStages

\* lines 387-388
dropEmptyShardedStages(shardedStages) == SelectSeq(shardedStages, LAMBDA st : st # <<>>)

filterForCurrentShard(projs, tree, groupStages, sh) ==
  IF sh = NoShard THEN [rootSuite |-> tree, concurrentTestGroups |-> groupStages]
  ELSE
    LET total == ShardableTotal(projs, tree)
        from == ShardFrom(total, sh)
        to == ShardTo(total, sh)
        shardConcurrentTestGroups ==
          dropEmptyShardedStages(
            [s \in 1..Len(groupStages) |-> ShardedStage(groupStages, s, from, to)])
        shardTests == {t.id : t \in Range(GroupTests(Flatten(shardConcurrentTestGroups)))}
    IN  [rootSuite |-> filterSuiteWithOnlySemantics(tree, {}, shardTests),
         concurrentTestGroups |-> shardConcurrentTestGroups]

\* The nodes of the tree collected from the projects: the project suite of
\* project p, its file suite and its tests.
ProjectSuiteNode(p) == p
FileSuiteNode(p) == NumProjects + p
TestNodes(p, count) == [i \in 1..count |-> 2 * NumProjects + (p - 1) * MaxPerProject + i]

\* lines 303-333: a project suite per project of each stage in turn; a project
\* with tests gets the suite of its one file, which is in parallel mode or not.
CollectedSuite(projs, files) ==
  LET order == Flatten(collectRunStages(projs))
      withFile == {p \in Projects : files[p].count > 0}
      tests == UNION {Range(TestNodes(p, files[p].count)) : p \in Projects}
      nodes == {0} \cup {ProjectSuiteNode(p) : p \in Projects}
                   \cup {FileSuiteNode(p) : p \in withFile} \cup tests
  IN  WithSuitesAndTests(
      [kind |-> [n \in nodes |-> IF n \in tests THEN "test" ELSE "suite"],
       parent |-> [n \in nodes |->
                     IF n = 0 \/ n \in Projects THEN 0
                     ELSE IF n \in tests
                     THEN FileSuiteNode(CHOOSE p \in Projects :
                                          n \in Range(TestNodes(p, files[p].count)))
                     ELSE n - NumProjects],
       only |-> [n \in nodes |-> FALSE],
       project |-> [n \in nodes |-> IF n \in Projects THEN n ELSE 0],
       entries |-> [n \in nodes |->
                      IF n = 0 THEN [i \in 1..Len(order) |-> ProjectSuiteNode(order[i])]
                      ELSE IF n \in Projects
                      THEN (IF n \in withFile THEN <<FileSuiteNode(n)>> ELSE <<>>)
                      ELSE IF n \in tests THEN <<>>
                      ELSE TestNodes(n - NumProjects, files[n - NumProjects].count)]])

\* The file suites built for the projects of a stage; the worker hash of a
\* test holds its project.
BuiltSuites(stage, files) ==
  LET withFile == SelectSeq(stage, LAMBDA p : files[p].count > 0)
  IN  [i \in 1..Len(withFile) |->
         SuiteShape([projectId |-> withFile[i], repeatEachIndex |-> 0,
                     requireFile |-> "a.spec", workerHash |-> withFile[i]],
                    [insideParallel |-> files[withFile[i]].parallel,
                     hasAllHooks |-> FALSE, serial |-> FALSE],
                    TestNodes(withFile[i], files[withFile[i]].count))]

\* lines 267, 335-337
CollectedGroups(projs, files, w) ==
  LET runStages == collectRunStages(projs)
  IN  [s \in 1..Len(runStages) |-> createTestGroups(projs, BuiltSuites(runStages[s], files), w)]

FileShapes ==
  {[count |-> 0, parallel |-> FALSE]}
    \cup [count : 1..MaxPerProject, parallel : BOOLEAN]

Shards == {sh \in [current : 1..MaxShards, total : 1..MaxShards] : sh.current <= sh.total}

\* The projects are declared in the order of their stages.
ShardInit ==
  /\ RunnerIdle
  /\ IoUnused
  /\ \A p \in Projects \ {1} : projects[p - 1].stage <= projects[p].stage
  /\ fnPc = "input"
  /\ workers = 1
  /\ shard \in {NoShard} \cup Shards
  /\ projectSuites = <<>>
  /\ \E files \in [Projects -> FileShapes] :
       /\ rootSuite = CollectedSuite(projects, files)
       /\ concurrentTestGroups = CollectedGroups(projects, files, workers)
  /\ before = [rootSuite |-> rootSuite, concurrentTestGroups |-> concurrentTestGroups]

\* line 407
FilterForCurrentShard ==
  /\ fnPc = "input"
  /\ LET r == filterForCurrentShard(projects, rootSuite, concurrentTestGroups, shard)
     IN  /\ rootSuite' = r.rootSuite
         /\ concurrentTestGroups' = r.concurrentTestGroups
  /\ fnPc' = "applied"
  /\ UNCHANGED <<runVars, ioVars, workers, shard, projectSuites, before>>

ShardNext == FilterForCurrentShard

ShardSpec == ShardInit /\ [][ShardNext]_vars

----------------------------------------------------------------------------
\* Properties of the shard filter

GroupsBefore == before.concurrentTestGroups

GroupPositions ==
  {pos \in (1..NumProjects) \X (1..(NumProjects * MaxPerProject)) :
     pos[1] <= Len(GroupsBefore) /\ pos[2] <= Len(GroupsBefore[pos[1]])}

TotalBefore == ShardableTotal(projects, before.rootSuite)

ShardAt(current) == [current |-> current, total |-> shard.total]

\* The filter run on the same tree and groups for shard current of shard.total.
FilterAt(current) ==
  filterForCurrentShard(projects, before.rootSuite, GroupsBefore, ShardAt(current))

Retained(groupStages) == Range(Flatten(groupStages))

\* The tests of the groups of groupStages that are not run always.
ShardableTests(groupStages) ==
  GroupTests(SelectSeq(Flatten(groupStages), LAMBDA g : g.run # "always"))

\* shardSize + (k < extraOne ? 1 : 0) for the zero-based shard k
ShardShare(sh) ==
  ShardSize(TotalBefore, sh) + (IF sh.current - 1 < ExtraOne(TotalBefore, sh) THEN 1 ELSE 0)

Sharded == fnPc = "applied" /\ shard # NoShard

\* C14: over the runs of the filter for current = 1..total on one tree and one
\* list of stages, a group that is run always is retained in every shard, and
\* any other group in exactly one: the shard whose interval [from, to) holds
\* the number of shardable tests before the group.  The run of this state
\* retains a group on the same condition.
C14_ShardPartition ==
  Sharded =>
    \A pos \in GroupPositions :
      LET g == GroupsBefore[pos[1]][pos[2]]
          preceding == CurrentAt(GroupsBefore, pos[1], pos[2])
          InInterval(c) == /\ ShardFrom(TotalBefore, ShardAt(c)) <= preceding
                           /\ preceding < ShardTo(TotalBefore, ShardAt(c))
          shardsOf == {c \in 1..shard.total : g \in Retained(FilterAt(c).concurrentTestGroups)}
      IN  /\ g.run = "always" => shardsOf = 1..shard.total
          /\ g.run # "always" =>
               /\ Cardinality(shardsOf) = 1
               /\ shardsOf = {c \in 1..shard.total : InInterval(c)}
          /\ g \in Retained(concurrentTestGroups)
               <=> (g.run = "always" \/ InInterval(shard.current))

\* Three shards: a group of two tests is in one of them with both of its
\* tests, a group run always is in the one of this state.
C14_Witness ==
  /\ Sharded
  /\ shard = [current |-> 2, total |-> 3]
  /\ \E pos \in GroupPositions :
       /\ GroupsBefore[pos[1]][pos[2]].run # "always"
       /\ Len(GroupsBefore[pos[1]][pos[2]].tests) = 2
       /\ GroupsBefore[pos[1]][pos[2]] \in Retained(concurrentTestGroups)
  /\ \E g \in Retained(concurrentTestGroups) : g.run = "always"

\* C15 as stated: the tests retained for shard k that are not run always
\* number shardSize + (k < extraOne ? 1 : 0).
C15_ShardCount ==
  Sharded => Len(ShardableTests(concurrentTestGroups)) = ShardShare(shard)

\* C15, amended: the interval [from, to) of shard k has shardSize +
\* (k < extraOne ? 1 : 0) indices; the shard retains that many shardable tests
\* when every shardable group has one test, and over the shards of one total
\* the numbers retained add up to shardableTotal.
C15_ShardInterval ==
  Sharded =>
    /\ ShardTo(TotalBefore, shard) - ShardFrom(TotalBefore, shard) = ShardShare(shard)
    /\ (\A pos \in GroupPositions :
          GroupsBefore[pos[1]][pos[2]].run # "always"
            => Len(GroupsBefore[pos[1]][pos[2]].tests) = 1)
         => Len(ShardableTests(concurrentTestGroups)) = ShardShare(shard)
    /\ Sum([c \in 1..shard.total |->
             Len(ShardableTests(FilterAt(c).concurrentTestGroups))]) = TotalBefore

\* Four shardable tests in groups of one, three shards: the first gets two.
C15_Witness ==
  /\ Sharded
  /\ shard = [current |-> 1, total |-> 3]
  /\ TotalBefore = 4
  /\ \A pos \in GroupPositions : Len(GroupsBefore[pos[1]][pos[2]].tests) = 1
  /\ Len(ShardableTests(concurrentTestGroups)) = 2

SingleShard == fnPc = "applied" /\ shard = [current |-> 1, total |-> 1]

\* C16 as stated: with shard 1 of 1 the stages with their groups and the tree
\* under the root are after the filter what they were before it.
C16_SingleShardIdentity ==
  SingleShard =>
    /\ concurrentTestGroups = GroupsBefore
    /\ rootSuite = before.rootSuite

\* C16, amended: with shard 1 of 1 every group is retained, in its stage and
\* in order, and every test stays in the tree; the stages without a group are
\* gone, and so is, from a suite that holds tests, each entry that is a suite
\* without tests.  When every project suite holds a test nothing changes.
C16_SingleShardKeepsTests ==
  SingleShard =>
    /\ concurrentTestGroups = SelectSeq(GroupsBefore, LAMBDA st : st # <<>>)
    /\ InTree(rootSuite) \cap TestsIn(rootSuite)
         = InTree(before.rootSuite) \cap TestsIn(rootSuite)
    /\ \A n \in SuitesOf(rootSuite) :
         rootSuite.entries[n] =
           IF TestCount(before.rootSuite, n) = 0 THEN before.rootSuite.entries[n]
           ELSE SelectSeq(before.rootSuite.entries[n],
                  LAMBDA e : rootSuite.kind[e] = "test" \/ TestCount(before.rootSuite, e) > 0)
    /\ (\A p \in Projects : TestCount(before.rootSuite, ProjectSuiteNode(p)) > 0)
         => (concurrentTestGroups = GroupsBefore /\ rootSuite = before.rootSuite)

\* A project without tests next to one with tests: its suite and its stage are
\* dropped.
C16_Witness ==
  /\ SingleShard
  /\ Len(concurrentTestGroups) < Len(GroupsBefore)
  /\ Len(rootSuite.entries[0]) < Len(before.rootSuite.entries[0])
  /\ concurrentTestGroups # <<>>

\* C17: with a shard configured, every test in the tree after the filter is a
\* test of a group retained for the shard.
C17_TreeFollowsShard ==
  Sharded =>
    InTree(rootSuite) \cap TestsIn(rootSuite)
      \subseteq {t.id : t \in Range(GroupTests(Flatten(concurrentTestGroups)))}

----------------------------------------------------------------------------
\* filterSuite and filterByFocusedLine (lines 615-631, 646-654), and the
\* filtering steps one after the other

\* lines 647-650: the calls reach the root and, from a suite they reach, each
\* of its suites that the suite filter does not accept.
RECURSIVE filterSuiteReaches(_, _, _)
filterSuiteReaches(tree, n, suiteFilter) ==
  \/ n = 0
  \/ /\ n \in Range(tree.suites[tree.parent[n]])
     /\ n \notin suiteFilter
     /\ filterSuiteReaches(tree, tree.parent[n], suiteFilter)

filterSuiteKeepsEntries(tree, suiteFilter, testFilter) ==
  [tree EXCEPT
     !.tests = [n \in DOMAIN tree.kind |->
                  IF filterSuiteReaches(tree, n, suiteFilter)
                  THEN SelectSeq(tree.tests[n], LAMBDA t : t \in testFilter)
                  ELSE tree.tests[n]]]

\* lines 651-653 for every suite reached
filterSuite(tree, suiteFilter, testFilter) ==
  LET KeptTests(n) == SelectSeq(tree.tests[n], LAMBDA t : t \in testFilter)
  IN  [tree EXCEPT
         !.tests = [n \in DOMAIN tree.kind |->
                      IF filterSuiteReaches(tree, n, suiteFilter) THEN KeptTests(n)
                      ELSE tree.tests[n]],
         !.entries = [n \in DOMAIN tree.kind |->
                        IF filterSuiteReaches(tree, n, suiteFilter)
                        THEN SelectSeq(tree.entries[n],
                               LAMBDA e : e \in Range(tree.suites[n]) \cup Range(KeptTests(n)))
                        ELSE tree.entries[n]]]

\* filterWithLine: some filter gives a line; matching: the suites and tests
\* whose location a filter matches.  The root has no location.
filterByFocusedLine(tree, filterWithLine, matching) ==
  IF ~filterWithLine THEN tree
  ELSE filterSuite(tree, matching \cap (SuitesOf(tree) \ {0}), matching \cap TestsIn(tree))

FilterInit == OnlyInit

\* lines 289-290
FilterByFocusedLine ==
  /\ fnPc = "input"
  /\ \E filterWithLine \in BOOLEAN, matching \in SUBSET (Nodes \ {0}) :
       /\ ~filterWithLine => matching = {}
       /\ rootSuite' = filterByFocusedLine(rootSuite, filterWithLine, matching)
  /\ before' = rootSuite
  /\ fnPc' = "focusedLine"
  /\ UNCHANGED <<runVars, ioVars, workers, shard, projectSuites, concurrentTestGroups>>

\* lines 299-301, with or without a focused-line filter before
FilterOnlyNext ==
  /\ fnPc \in {"input", "focusedLine"}
  /\ rootSuite' = filterOnly(rootSuite)
  /\ before' = rootSuite
  /\ fnPc' = "only"
  /\ UNCHANGED <<runVars, ioVars, workers, shard, projectSuites, concurrentTestGroups>>

\* line 393, for the tests of the groups some shard retains
PruneForShard ==
  /\ fnPc \in {"input", "focusedLine", "only"}
  /\ \E shardTests \in SUBSET (InTree(rootSuite) \cap TestsIn(rootSuite)) :
       rootSuite' = filterSuiteWithOnlySemantics(rootSuite, {}, shardTests)
  /\ before' = rootSuite
  /\ fnPc' = "shard"
  /\ UNCHANGED <<runVars, ioVars, workers, shard, projectSuites, concurrentTestGroups>>

FilterNext ==
  \/ FilterByFocusedLine
  \/ FilterOnlyNext
  \/ PruneForShard

FilterSpec == FilterInit /\ [][FilterNext]_vars

\* The elements of seq that are in kept, in the order of seq.
Subsequence(seq, kept) == SelectSeq(seq, LAMBDA e : e \in Range(kept))

\* C21: after a filtering step (focused line, only, shard pruning) every suite
\* still in the tree has entries that are a subsequence of its entries before
\* the step, and its entries are exactly its suites and its tests: the suites
\* in their order, the tests in theirs, nothing else.
C21_EntriesFollow ==
  fnPc \in {"focusedLine", "only", "shard"} =>
    \A s \in (InTree(rootSuite) \cup {0}) \cap SuitesOf(rootSuite) :
      /\ Range(rootSuite.entries[s]) \subseteq Range(before.entries[s])
      /\ rootSuite.entries[s] = Subsequence(before.entries[s], rootSuite.entries[s])
      /\ Range(rootSuite.entries[s])
           = Range(rootSuite.suites[s]) \cup Range(rootSuite.tests[s])
      /\ rootSuite.suites[s] = Subsequence(rootSuite.entries[s], rootSuite.suites[s])
      /\ rootSuite.tests[s] = Subsequence(rootSuite.entries[s], rootSuite.tests[s])
      /\ Len(rootSuite.entries[s]) = Len(rootSuite.suites[s]) + Len(rootSuite.tests[s])

\* The focused-line filter took a test out of a suite between two entries it
\* kept.
C21_Witness ==
  /\ fnPc = "focusedLine"
  /\ \E s \in (InTree(rootSuite) \cup {0}) \cap SuitesOf(rootSuite) :
       /\ Len(before.entries[s]) = 3
       /\ rootSuite.entries[s] = <<before.entries[s][1], before.entries[s][3]>>


-----------------------------------------------------------------------------
\* createDuplicateTitlesError (lines 913-938) as _collectTestGroups calls it
\* (lines 283-301, 323-328)

MaxTitleChars == 3

\* a title is a string: a sequence of characters, U+001E among them
RecordSeparator == "U+001E"

TitleChars == {"a", RecordSeparator}

Titles(n) == UNION {[1..m -> TitleChars] : m \in 1..n}

\* Array.join(sep)
RECURSIVE join(_, _)
join(strings, sep) ==
  IF strings = <<>> THEN <<>>
  ELSE IF Len(strings) = 1 THEN strings[1]
  ELSE strings[1] \o sep \o join(Tail(strings), sep)

\* TestCase.titlePath(): the root's title, the file's, the describes', the test's
titlePath(fileSuite, test) == <<<<>>, fileSuite.title>> \o test.titles

slice(array, start) == SubSeq(array, start + 1, Len(array))

\* line 918
fullTitle(fileSuite, test) ==
  join(slice(titlePath(fileSuite, test), 2), <<RecordSeparator>>)

\* lines 916-920: the MultiMap of one file suite
testsByFullTitle(fileSuite) ==
  [key \in {fullTitle(fileSuite, fileSuite.tests[i]) : i \in DOMAIN fileSuite.tests} |->
     SelectSeq(fileSuite.tests, LAMBDA test : fullTitle(fileSuite, test) = key)]

\* lines 921-927 over one map: the titles that get a line
DuplicateLines(byFullTitle) ==
  {key \in DOMAIN byFullTitle : Len(byFullTitle[key]) > 1}

createDuplicateTitlesErrorOverRoot(root) ==
  LET all == [title |-> <<>>,
              tests |-> Flatten([i \in DOMAIN root |-> root[i].tests])]
  IN  IF DuplicateLines(testsByFullTitle(all)) = {} THEN "undefined"
      ELSE "duplicateTitles"

createDuplicateTitlesError(root) ==
  IF \A i \in DOMAIN root : DuplicateLines(testsByFullTitle(root[i])) = {}
  THEN "undefined"
  ELSE "duplicateTitles"

\* the title paths below the file that fit into MaxTitleChars characters
TitlePaths ==
  {titles \in UNION {[1..d -> Titles(MaxTitleChars)] : d \in 1..2} :
     Len(join(titles, <<RecordSeparator>>)) <= MaxTitleChars}

\* two files: two tests in the first, a third in the first or in the second
DupInit ==
  /\ RunnerIdle
  /\ projects = [p \in Projects |-> [stage |-> 0, run |-> "default"]]
  /\ fnPc = "input"
  /\ workers = 1
  /\ shard = NoShard
  /\ projectSuites = <<>>
  /\ concurrentTestGroups = <<>>
  /\ options = <<>>
  /\ transport = <<>>
  /\ returned = <<>>
  /\ \E t1, t2, t3 \in TitlePaths, third \in 1..2 :
       LET test(id, titles) == [id |-> id, titles |-> titles]
       IN  rootSuite =
             << [title |-> <<"f1">>,
                 tests |-> <<test(1, t1), test(2, t2)>> \o
                           (IF third = 1 THEN <<test(3, t3)>> ELSE <<>>)],
                [title |-> <<"f2">>,
                 tests |-> IF third = 2 THEN <<test(3, t3)>> ELSE <<>>] >>
  /\ before = rootSuite

\* lines 283-286
CreateDuplicateTitlesError ==
  /\ fnPc = "input"
  /\ returned' = createDuplicateTitlesError(rootSuite)
  /\ fnPc' = "checked"
  /\ UNCHANGED <<runVars, workers, shard, projectSuites, rootSuite, concurrentTestGroups,
                 before, options, transport>>

\* lines 289-301 and 323-328: the focused-line, only and grep filters drop tests
FilterLoadedFiles ==
  /\ fnPc = "checked"
  /\ \E dropped \in SUBSET (1..3) :
       /\ dropped # {}
       /\ rootSuite' = [i \in DOMAIN rootSuite |->
                          [rootSuite[i] EXCEPT !.tests =
                             SelectSeq(@, LAMBDA test : test.id \notin dropped)]]
  /\ fnPc' = "filtered"
  /\ UNCHANGED <<runVars, workers, shard, projectSuites, concurrentTestGroups, before,
                 ioVars>>

DupNext == CreateDuplicateTitlesError \/ FilterLoadedFiles

DupSpec == DupInit /\ [][DupNext]_vars

\* some file suite of root holds two tests with the same titles below the file
SameTitlePathInAFile(root) ==
  \E i \in DOMAIN root : \E a, b \in DOMAIN root[i].tests :
    /\ a # b
    /\ slice(titlePath(root[i], root[i].tests[a]), 2)
         = slice(titlePath(root[i], root[i].tests[b]), 2)

SameFullTitleInAFile(root) ==
  \E i \in DOMAIN root : \E a, b \in DOMAIN root[i].tests :
    /\ a # b
    /\ fullTitle(root[i], root[i].tests[a]) = fullTitle(root[i], root[i].tests[b])

HasRecordSeparator(root) ==
  \E i \in DOMAIN root : \E a \in DOMAIN root[i].tests :
    \E j \in DOMAIN root[i].tests[a].titles :
      RecordSeparator \in Range(root[i].tests[a].titles[j])

\* C22 as stated: the duplicate-titles error is produced if and only if some
\* file suite of the loaded files holds two tests with the same title path.
C22_DuplicateIffSamePath ==
  fnPc \in {"checked", "filtered"} =>
    ((returned = "duplicateTitles") <=> SameTitlePathInAFile(before))

\* C22, amended: the duplicate-titles error is produced if and only if some
\* file suite of the loaded files holds two tests whose titles below the file,
\* joined with U+001E, are the same string. Two tests of a file with the same
\* title path always produce it, two tests with different title paths only
\* when a title holds U+001E, tests of different files never, and the filters
\* that run afterwards do not change it.
C22_DuplicateTitles ==
  fnPc \in {"checked", "filtered"} =>
    /\ (returned = "duplicateTitles") <=> SameFullTitleInAFile(before)
    /\ SameTitlePathInAFile(before) => returned = "duplicateTitles"
    /\ ~HasRecordSeparator(before) =>
         ((returned = "duplicateTitles") <=> SameTitlePathInAFile(before))

\* two tests of the first file share a title path that the test of the second
\* file has as well, and a filter has since dropped one of the two
C22_Witness ==
  /\ fnPc = "filtered"
  /\ returned = "duplicateTitles"
  /\ before[1].tests[1].titles = <<<<"a">>, <<"a">>>>
  /\ before[1].tests[2].titles = before[1].tests[1].titles
  /\ Len(before[2].tests) = 1
  /\ before[2].tests[1].titles = before[1].tests[1].titles
  /\ Len(rootSuite[1].tests) = 1
  /\ ~SameTitlePathInAFile(rootSuite)


-----------------------------------------------------------------------------
\* _collectProjects (lines 218-242) and _removeOutputDirs (lines 503-509) on
\* the same options.projectFilter

MaxFilterNames == 2

\* project names: none, and names that differ in case only
ProjectNames == {"", "a", "A", "b"}

FilterNames == {"a", "A", "b", "B"}

OutputDirs == {"test-results", "out"}

\* an optional list of names that was not given
Undefined == <<"undefined">>

\* String.toLocaleLowerCase
toLocaleLowerCase(name) ==
  CASE name = "A" -> "a"
    [] name = "B" -> "b"
    [] OTHER -> name

\* the names that are the same name in another case
CaseVariants == {{""}, {"a", "A"}, {"b", "B"}}

EqualIgnoringCase(name, other) ==
  \E variants \in CaseVariants : name \in variants /\ other \in variants

collectProjectsExactCase(fullConfigProjects, projectNames) ==
  IF projectNames = Undefined
  THEN [threw |-> FALSE, projects |-> fullConfigProjects]
  ELSE IF Range(projectNames) \ {fullConfigProjects[i].name : i \in DOMAIN fullConfigProjects} # {}
       THEN [threw |-> TRUE, projects |-> <<>>]
       ELSE [threw |-> FALSE,
             projects |-> SelectSeq(fullConfigProjects,
                                    LAMBDA project : project.name \in Range(projectNames))]

collectProjects(fullConfigProjects, projectNames) ==
  IF projectNames = Undefined
  THEN [threw |-> FALSE, projects |-> fullConfigProjects]
  ELSE LET projectsToFind == {toLocaleLowerCase(n) : n \in Range(projectNames)}
           \* the keys left in the map after the filter callback ran for every project
           unknownProjects ==
             projectsToFind \
               {toLocaleLowerCase(fullConfigProjects[i].name) : i \in DOMAIN fullConfigProjects}
       IN  IF unknownProjects # {}
           THEN [threw |-> TRUE, projects |-> <<>>]
           ELSE [threw |-> FALSE,
                 projects |-> SelectSeq(fullConfigProjects,
                                LAMBDA project : toLocaleLowerCase(project.name) \in projectsToFind)]

\* lines 505-509: the set of directories to remove
outputDirsToRemove(fullConfigProjects, projectFilter) ==
  {fullConfigProjects[i].outputDir :
     i \in {j \in DOMAIN fullConfigProjects :
              \/ projectFilter = Undefined
              \/ fullConfigProjects[j].name \in Range(projectFilter)}}

ProjectFilters(n) == {Undefined} \cup UNION {[1..m -> FilterNames] : m \in 0..n}

ConfiguredProjects(n) ==
  UNION {[1..m -> [name : ProjectNames, outputDir : OutputDirs]] : m \in 1..n}

ProjectsInit ==
  /\ RunnerIdle
  /\ projects = [p \in Projects |-> [stage |-> 0, run |-> "default"]]
  /\ fnPc = "input"
  /\ workers = 1
  /\ shard = NoShard
  /\ projectSuites = <<>>
  /\ rootSuite = <<>>
  /\ concurrentTestGroups = <<>>
  /\ before = <<>>
  /\ transport = <<>>
  /\ returned = <<>>
  /\ \E configured \in ConfiguredProjects(NumProjects),
        projectFilter \in ProjectFilters(MaxFilterNames) :
       options = [fullConfig |-> [projects |-> configured], projectFilter |-> projectFilter]

projectsFrame ==
  <<cfgVars, collectVars, status, caught, runResult, exitPath, setupVars, loopVars,
    result, tdVars, fullResult, timedOut, begins, ends, errCount, ended, exited,
    earlyTestEvent, lateTestEvent, eventAfterExit, out, workers, shard, projectSuites,
    rootSuite, concurrentTestGroups, before, options, transport>>

\* lines 264-266 inside _run (line 401) inside runAllTests (line 181): a throw
\* of _collectProjects or of the assert leaves runAllTests at line 181
CollectProjects ==
  /\ fnPc = "input"
  /\ LET collected == collectProjects(options.fullConfig.projects, options.projectFilter)
         asserted == ~collected.threw /\ collected.projects = <<>>
     IN  /\ returned' = [threw |-> collected.threw, asserted |-> asserted,
                         projects |-> collected.projects, outputDirs |-> {}]
         /\ fnPc' = IF collected.threw \/ asserted THEN "threw" ELSE "collected"
         /\ pc' = IF collected.threw \/ asserted THEN "threw" ELSE pc
         /\ pcOuter' = IF collected.threw \/ asserted THEN "threw" ELSE pcOuter
  /\ UNCHANGED <<projectsFrame, rmdir, begun>>

\* line 411
ReportOnBegin ==
  /\ fnPc = "collected"
  /\ begun' = TRUE
  /\ out' = <<"onBegin">>
  /\ fnPc' = "begun"
  /\ UNCHANGED <<cfgVars, collectVars, status, caught, runResult, exitPath, setupVars,
                 loopVars, result, tdVars, fullResult, timedOut, begins, ends, errCount,
                 ended, exited, earlyTestEvent, lateTestEvent, eventAfterExit, workers,
                 shard, projectSuites, rootSuite, concurrentTestGroups, before, options,
                 transport, returned, rmdir, pc, pcOuter>>

\* line 426 and lines 503-509
RemoveOutputDirs ==
  /\ fnPc = "begun"
  /\ returned' = [returned EXCEPT !.outputDirs =
                    outputDirsToRemove(options.fullConfig.projects, options.projectFilter)]
  /\ rmdir' = "running"
  /\ fnPc' = "removing"
  /\ UNCHANGED <<projectsFrame, pc, pcOuter, begun>>

ProjectsNext == CollectProjects \/ ReportOnBegin \/ RemoveOutputDirs

ProjectsSpec == ProjectsInit /\ [][ProjectsNext]_vars

MatchesSomeFilterName(project) ==
  \E i \in DOMAIN options.projectFilter :
    EqualIgnoringCase(project.name, options.projectFilter[i])

SomeFilterNameUnmatched ==
  \E i \in DOMAIN options.projectFilter :
    \A j \in DOMAIN options.fullConfig.projects :
      ~EqualIgnoringCase(options.fullConfig.projects[j].name, options.projectFilter[i])

NoReporterEvent ==
  /\ ~begun /\ ~ended /\ ~exited
  /\ \A e \in ErrKinds : errCount[e] = 0

\* C23: with a projectFilter, project selection returns exactly the configured
\* projects whose name equals some filter name ignoring case, in configuration
\* order; it throws if and only if some filter name matches no configured
\* project, and then no reporter event is emitted for the run.
C23_ProjectSelection ==
  (fnPc # "input" /\ options.projectFilter # Undefined) =>
    /\ returned.threw <=> SomeFilterNameUnmatched
    /\ ~returned.threw =>
         returned.projects = SelectSeq(options.fullConfig.projects, MatchesSomeFilterName)
    /\ returned.threw => NoReporterEvent /\ pcOuter = "threw"

\* the filter names "A" and "B" against the projects "a" and "": "A" selects
\* "a", "B" matches nothing, and the run is left without an event
C23_Witness ==
  /\ fnPc = "threw"
  /\ returned.threw
  /\ options.projectFilter = <<"A", "B">>
  /\ Len(options.fullConfig.projects) = 2
  /\ options.fullConfig.projects[1].name = "a"
  /\ options.fullConfig.projects[2].name = ""
  /\ NoReporterEvent

\* C29 as stated: the set of output directories removed before a run is exactly
\* the outputDir of the projects that project selection picks under the same
\* projectFilter.
C29_RemovedDirsOfSelected ==
  fnPc = "removing" =>
    returned.outputDirs = {returned.projects[i].outputDir : i \in DOMAIN returned.projects}


-----------------------------------------------------------------------------
\* WebSocketTransport (transport.ts, lines 49-144)

MaxCloseCalls == 2

ReadyStates == {"CONNECTING", "OPEN", "CLOSING", "CLOSED"}

\* WebSocket.close() of the ws module: a socket that is not closed starts
\* closing, and emits 'close' later
wsClose(readyState) ==
  IF readyState \in {"CONNECTING", "OPEN"} THEN "CLOSING" ELSE readyState

\* lines 91-126: the socket is created and connects; no callback is set
TransportInit ==
  /\ RunnerIdle
  /\ projects = [p \in Projects |-> [stage |-> 0, run |-> "default"]]
  /\ fnPc = "transport"
  /\ workers = 1
  /\ shard = NoShard
  /\ projectSuites = <<>>
  /\ rootSuite = <<>>
  /\ concurrentTestGroups = <<>>
  /\ before = <<>>
  /\ options = <<>>
  /\ returned = <<>>
  /\ transport = [readyState |-> "CONNECTING",
                  onclose |-> FALSE,        \* this.onclose is set
                  oncloseCalls |-> 0,       \* invocations of this.onclose
                  closeEvent |-> "none",    \* the 'close' event: none, or what it found in this.onclose
                  closeCalls |-> 0,         \* calls of close() by the owner
                  wsCloseCalls |-> 0,       \* calls of this._ws.close()
                  waits |-> 0,              \* calls of closeAndWait()
                  waiter |-> "idle",        \* closeAndWait(): idle, waiting, resolved, returned
                  waiterClosed |-> FALSE,   \* the last closeAndWait() called close()
                  returnedAt |-> "none"]    \* readyState when the last closeAndWait() returned

transportFrame ==
  <<runVars, fnPc, workers, shard, projectSuites, rootSuite, concurrentTestGroups, before,
    options, returned>>

\* line 66: the 'open' event
SocketOpens ==
  /\ transport.readyState = "CONNECTING"
  /\ transport' = [transport EXCEPT !.readyState = "OPEN"]
  /\ UNCHANGED transportFrame

\* the owner assigns onclose (line 54)
SetOnclose ==
  /\ ~transport.onclose
  /\ transport' = [transport EXCEPT !.onclose = TRUE]
  /\ UNCHANGED transportFrame

\* The socket emits 'close': the listener of lines 119-123 runs, and the
\* listener of line 140 resolves the promise of a closeAndWait() in progress.
SocketCloses ==
  /\ transport.readyState # "CLOSED"
  /\ transport' = [transport EXCEPT
                    !.readyState = "CLOSED",
                    !.closeEvent = IF transport.onclose THEN "set" ELSE "unset",
                    !.oncloseCalls = @ + (IF transport.onclose THEN 1 ELSE 0),
                    !.waiter = IF @ = "waiting" THEN "resolved" ELSE @]
  /\ UNCHANGED transportFrame

\* the socket closes after this._ws.close() was called
SocketClosesAfterClose ==
  /\ transport.readyState = "CLOSING"
  /\ SocketCloses

\* lines 108-117: onmessage throws
OnMessageThrows ==
  /\ transport.readyState = "OPEN"
  /\ transport.wsCloseCalls < MaxCloseCalls
  /\ transport' = [transport EXCEPT !.readyState = wsClose(@), !.wsCloseCalls = @ + 1]
  /\ UNCHANGED transportFrame

\* lines 132-135
close(t) ==
  [t EXCEPT !.readyState = wsClose(@), !.wsCloseCalls = @ + 1]

Close ==
  /\ transport.closeCalls < MaxCloseCalls
  /\ transport' = [close(transport) EXCEPT !.closeCalls = @ + 1]
  /\ UNCHANGED transportFrame

closeAndWaitWithoutCheck(t) ==
  [close(t) EXCEPT !.waiter = "waiting", !.waiterClosed = TRUE, !.returnedAt = "none"]

\* lines 137-141: up to the await
closeAndWait(t) ==
  IF t.readyState = "CLOSED"
  THEN [t EXCEPT !.waiter = "returned", !.waiterClosed = FALSE, !.returnedAt = t.readyState]
  ELSE [close(t) EXCEPT !.waiter = "waiting", !.waiterClosed = TRUE, !.returnedAt = "none"]

CloseAndWait ==
  /\ transport.waiter \in {"idle", "returned"}
  /\ transport.waits < MaxCloseCalls
  /\ transport' = [closeAndWait(transport) EXCEPT !.waits = @ + 1]
  /\ UNCHANGED transportFrame

\* line 142: the await is over
CloseAndWaitReturns ==
  /\ transport.waiter = "resolved"
  /\ transport' = [transport EXCEPT !.waiter = "returned",
                                    !.returnedAt = transport.readyState]
  /\ UNCHANGED transportFrame

TransportNext ==
  \/ SocketOpens
  \/ SetOnclose
  \/ SocketCloses
  \/ OnMessageThrows
  \/ Close
  \/ CloseAndWait
  \/ CloseAndWaitReturns

\* A socket that was told to close does close, and a resolved await goes on.
TransportSpec ==
  /\ TransportInit
  /\ [][TransportNext]_vars
  /\ WF_vars(SocketClosesAfterClose)
  /\ WF_vars(CloseAndWaitReturns)

-----------------------------------------------------------------------------
\* createTestGroups: the walk up the parents and the placement (lines 811-836)

MaxAncestors == 2

ParallelModes == {"default", "parallel", "serial"}

\* The suites from test.parent up to the root, each with its _parallelMode and
\* whether it has a beforeAll or afterAll hook.  A parallel suite is not inside
\* a serial one (line 811).
AncestorChains(n) ==
  {chain \in UNION {[1..d -> [parallelMode : ParallelModes, allHooks : BOOLEAN]] : d \in 1..n} :
     \A inner, outer \in DOMAIN chain :
       (inner < outer /\ chain[outer].parallelMode = "serial")
         => chain[inner].parallelMode # "parallel"}

\* lines 812-820, from parent number i on; a suite is named by its place in the chain
RECURSIVE ParentWalk(_, _, _)
ParentWalk(chain, i, found) ==
  IF i > Len(chain) THEN found
  ELSE ParentWalk(chain, i + 1,
         [insideParallel |-> found.insideParallel \/ chain[i].parallelMode = "parallel",
          outerMostSerialSuite |-> IF chain[i].parallelMode = "serial" THEN i
                                   ELSE found.outerMostSerialSuite,
          hasAllHooks |-> found.hasAllHooks \/ chain[i].allHooks])

\* lines 812-814
NothingFound == [insideParallel |-> FALSE, outerMostSerialSuite |-> 0, hasAllHooks |-> FALSE]

\* what the walk hands to the placement
WalkOf(chain) ==
  LET found == ParentWalk(chain, 1, NothingFound)
  IN  [insideParallel |-> found.insideParallel, hasAllHooks |-> found.hasAllHooks,
       serial |-> found.outerMostSerialSuite # 0]

SameBucket(a, b) == a.workerHash = b.workerHash /\ a.requireFile = b.requireFile

\* the emitted groups that hold test t
GroupsHolding(t) == {i \in DOMAIN Emitted : t \in Range(Emitted[i].tests)}

NoSerialAncestor(t) == t.outerMostSerialSuite = 0

GoesToGeneral(t) == ~t.insideParallel

GoesToParallelWithHooks(t) == t.insideParallel /\ t.hasAllHooks /\ NoSerialAncestor(t)

GoesToKeyed(t) == t.insideParallel /\ ~(t.hasAllHooks /\ NoSerialAncestor(t))

SameKey(a, b) ==
  IF NoSerialAncestor(a) THEN a = b ELSE a.outerMostSerialSuite = b.outerMostSerialSuite

\* C28: within its bucket a test without a parallel ancestor is in the bucket's
\* single general group; a test with a parallel ancestor, an ancestor with a
\* beforeAll or afterAll hook and no serial ancestor is in a parallel-with-hooks
\* group; any other test is in the group keyed by its outermost serial
\* ancestor, or by itself.  Two tests of a parallel region are in the same
\* keyed group iff they share the bucket and the outermost serial suite.  The
\* walk finds a parallel ancestor and a hook wherever they are in the chain,
\* and of the serial ancestors the outermost.
C28_Placement ==
  fnPc = "applied" =>
    LET tests == Range(allTests(projectSuites))
        GroupOf(t) == Range(Emitted[CHOOSE i \in GroupsHolding(t) : TRUE].tests)
    IN  /\ \A t \in tests : Cardinality(GroupsHolding(t)) = 1
        /\ \A t \in tests :
             /\ GoesToGeneral(t) =>
                  GroupOf(t) = {u \in tests : SameBucket(t, u) /\ GoesToGeneral(u)}
             /\ GoesToParallelWithHooks(t) =>
                  GroupOf(t) \subseteq
                    {u \in tests : SameBucket(t, u) /\ GoesToParallelWithHooks(u)}
             /\ GoesToKeyed(t) =>
                  GroupOf(t) =
                    {u \in tests : SameBucket(t, u) /\ GoesToKeyed(u) /\ SameKey(t, u)}
        /\ \A t, u \in tests :
             (t # u /\ GoesToKeyed(t) /\ GoesToKeyed(u)) =>
               ((GroupsHolding(t) = GroupsHolding(u))
                  <=> /\ SameBucket(t, u)
                      /\ ~NoSerialAncestor(t)
                      /\ t.outerMostSerialSuite = u.outerMostSerialSuite)
        /\ \A chain \in AncestorChains(MaxAncestors) :
             LET found == ParentWalk(chain, 1, NothingFound)
                 Serial == {i \in DOMAIN chain : chain[i].parallelMode = "serial"}
             IN  /\ found.insideParallel
                       <=> \E i \in DOMAIN chain : chain[i].parallelMode = "parallel"
                 /\ found.hasAllHooks <=> \E i \in DOMAIN chain : chain[i].allHooks
                 /\ found.outerMostSerialSuite =
                      (IF Serial = {} THEN 0 ELSE CHOOSE i \in Serial : \A j \in Serial : j <= i)
                 /\ WalkOf(chain) \in ParentWalks

\* One bucket with two file suites inside parallel suites, both with hooks:
\* the tests under the serial suite form one keyed group, the others are in
\* parallel-with-hooks groups.
C28_Witness ==
  /\ fnPc = "applied"
  /\ Len(projectSuites) = 2
  /\ SameBucket(projectSuites[1], projectSuites[2])
  /\ projectSuites[1].insideParallel /\ projectSuites[1].hasAllHooks /\ projectSuites[1].serial
  /\ projectSuites[2].insideParallel /\ projectSuites[2].hasAllHooks /\ ~projectSuites[2].serial
  /\ Len(projectSuites[1].tests) = 2
  /\ Len(projectSuites[2].tests) = 2
  /\ \E i \in DOMAIN Emitted :
       /\ Len(Emitted[i].tests) = 2
       /\ \A j \in DOMAIN Emitted[i].tests : Emitted[i].tests[j].outerMostSerialSuite = 1



\* where test t stands in the traversal of the project suites
TraversalIndex(t) ==
  CHOOSE n \in DOMAIN allTests(projectSuites) : allTests(projectSuites)[n] = t

\* the places of the emitted groups that hold test t
PlacesOf(t) ==
  {<<i, j>> \in (DOMAIN Emitted) \X (1..MaxTests) :
     j <= Len(Emitted[i].tests) /\ Emitted[i].tests[j] = t}

\* C32: the groups emitted for a stage partition the tests of the stage's
\* project suites: every test is in exactly one group, at one place; a group
\* holds only tests of these suites; no group is empty; inside a group the
\* tests stand in the order of the traversal of the project suites.
C32_GroupsPartition ==
  fnPc = "applied" =>
    /\ \A t \in Range(allTests(projectSuites)) : Cardinality(PlacesOf(t)) = 1
    /\ Len(GroupTests(Emitted)) = Len(allTests(projectSuites))
    /\ \A i \in DOMAIN Emitted :
         /\ Len(Emitted[i].tests) > 0
         /\ \A j \in DOMAIN Emitted[i].tests :
              Emitted[i].tests[j] \in Range(allTests(projectSuites))
         /\ \A a, b \in DOMAIN Emitted[i].tests :
              a < b => TraversalIndex(Emitted[i].tests[a]) < TraversalIndex(Emitted[i].tests[b])

\* Two file suites with MaxTests tests in all, emitted as three groups or
\* more: one takes tests of both suites, another holds a single test.
C32_Witness ==
  /\ fnPc = "applied"
  /\ Len(projectSuites) = 2
  /\ Len(allTests(projectSuites)) = MaxTests
  /\ Len(Emitted) >= 3
  /\ \E i \in DOMAIN Emitted :
       /\ Len(Emitted[i].tests) >= 2
       /\ Emitted[i].tests[1].id <= Len(projectSuites[1].tests)
       /\ Emitted[i].tests[Len(Emitted[i].tests)].id > Len(projectSuites[1].tests)
  /\ \E i \in DOMAIN Emitted : Len(Emitted[i].tests) = 1

-----------------------------------------------------------------------------
\* collectFiles (lines 656-732)

MaxRules == 2

IgnoreStatuses == {"ignored", "included", "ignored-but-recurse"}

\* A path is the sequence of its names; a string handed to a rule is split at
\* its slashes, so that "/build" is <<"", "build">> and "build/" is <<"build", "">>.
\* The test directory, with what readDirAsync lists in each directory.
\* An entry is a file, a directory, or neither (a symbolic link).  ReadDir is
\* keyed by the path below the test directory.
ReadDir ==
  [d \in {<<>>, <<"build">>, <<"build", "keep">>, <<"node_modules">>} |->
     IF d = <<>>
     THEN {[name |-> "node_modules", isDirectory |-> TRUE, isFile |-> FALSE],
           [name |-> "build", isDirectory |-> TRUE, isFile |-> FALSE],
           [name |-> "a.test.ts", isDirectory |-> FALSE, isFile |-> TRUE],
           [name |-> "link.test.ts", isDirectory |-> FALSE, isFile |-> FALSE],
           [name |-> ".gitignore", isDirectory |-> FALSE, isFile |-> TRUE]}
     ELSE IF d = <<"build">>
     THEN {[name |-> "x.test.ts", isDirectory |-> FALSE, isFile |-> TRUE],
           [name |-> "keep", isDirectory |-> TRUE, isFile |-> FALSE],
           [name |-> ".gitignore", isDirectory |-> FALSE, isFile |-> TRUE]}
     ELSE IF d = <<"build", "keep">>
     THEN {[name |-> "y.test.ts", isDirectory |-> FALSE, isFile |-> TRUE]}
     ELSE {[name |-> "a.test.ts", isDirectory |-> FALSE, isFile |-> TRUE]}]

\* the test directories: one outside and one inside a node_modules directory
TestDirs == {<<"tests">>, <<"node_modules", "pkg">>}

\* the names in the order of localeCompare
NameOrder ==
  <<".gitignore", "a.test.ts", "build", "keep", "link.test.ts", "node_modules",
    "x.test.ts", "y.test.ts">>

\* line 694
SortByName(entries) ==
  LET present == SelectSeq(NameOrder, LAMBDA n : \E e \in entries : e.name = n)
  IN  [j \in DOMAIN present |-> CHOOSE e \in entries : e.name = present[j]]

\* the lines of a .gitignore, without the "!" that flipNegate leaves to the caller
Patterns ==
  {<<"build", "">>, <<"build", "keep", "">>, <<"build", "keep", "y.test.ts">>,
   <<"", "build">>, <<"keep">>, <<"keep", "">>, <<"x.test.ts">>}

GitIgnoreRules(dir) == [dir : {dir}, negate : BOOLEAN, pattern : Patterns]

RuleLists(dir, n) == UNION {[1..m -> GitIgnoreRules(dir)] : m \in 0..n}

\* Minimatch.matchOne for a pattern without wildcards
matchOne(file, pattern, partial) ==
  LET both == IF Len(file) < Len(pattern) THEN Len(file) ELSE Len(pattern)
  IN  IF \E j \in 1..both : file[j] # pattern[j] THEN FALSE
      ELSE IF Len(file) = Len(pattern) THEN TRUE
      ELSE IF Len(file) < Len(pattern) THEN partial
      ELSE Len(file) = Len(pattern) + 1 /\ file[Len(file)] = ""

\* Minimatch.match with matchBase and flipNegate (line 706): a pattern without
\* a slash is matched against the last name of the path
match(rule, f, partial) ==
  LET named == {j \in DOMAIN f : f[j] # ""}
      filename == IF named = {} THEN "" ELSE f[CHOOSE j \in named : \A l \in named : l <= j]
      file == IF Len(rule.pattern) = 1 THEN <<filename>> ELSE f
  IN  IF f = <<"", "">> /\ partial THEN TRUE
      ELSE matchOne(file, rule.pattern, partial)

\* path.relative(rule.dir, entryPath), for an entry below rule.dir
relative(dir, entryPath) == SubSeq(entryPath, Len(dir) + 1, Len(entryPath))

ruleConsideredAlways(current, rule) == TRUE

\* lines 672-674: the rule is not skipped
ruleConsidered(current, rule) == (current = "included") # rule.negate

\* lines 676-677
MatchesFully(rule, entryPath) ==
  LET rel == relative(rule.dir, entryPath)
  IN  match(rule, <<"">> \o rel, FALSE) \/ match(rule, rel, FALSE)

\* line 679
MatchesAsDirectory(rule, entryPath) ==
  LET rel == relative(rule.dir, entryPath)
  IN  match(rule, <<"">> \o rel \o <<"">>, FALSE) \/ match(rule, rel \o <<"">>, FALSE)

\* line 682
MatchesPartially(rule, entryPath) ==
  LET rel == relative(rule.dir, entryPath)
  IN  match(rule, <<"">> \o rel, TRUE) \/ match(rule, rel, TRUE)

\* lines 672-685: one turn of the loop
applyRule(current, rule, entryPath, isDirectory) ==
  IF ~ruleConsidered(current, rule) THEN current
  ELSE IF MatchesFully(rule, entryPath)
  THEN IF rule.negate THEN "included" ELSE "ignored"
  ELSE IF isDirectory /\ MatchesAsDirectory(rule, entryPath)
  THEN IF rule.negate THEN "included" ELSE "ignored"
  ELSE IF isDirectory /\ rule.negate /\ MatchesPartially(rule, entryPath)
  THEN "ignored-but-recurse"
  ELSE current

\* the status after the first n rules
RECURSIVE StatusAfter(_, _, _, _, _)
StatusAfter(entryPath, rules, isDirectory, parentStatus, n) ==
  IF n = 0 THEN parentStatus
  ELSE applyRule(StatusAfter(entryPath, rules, isDirectory, parentStatus, n - 1),
                 rules[n], entryPath, isDirectory)

\* lines 669-688
checkIgnores(entryPath, rules, isDirectory, parentStatus) ==
  StatusAfter(entryPath, rules, isDirectory, parentStatus, Len(rules))

\* lines 696-713: the rules with those of the .gitignore of dir appended
RulesIn(dir, rules, opts) ==
  IF opts.respectGitIgnore /\ relative(opts.testDir, dir) \in DOMAIN opts.gitignore
  THEN rules \o opts.gitignore[relative(opts.testDir, dir)]
  ELSE rules

\* lines 692-729: visit is the call for a directory, and visitEntries the loop
\* over its entries from entry number j on; both give what the call did, in
\* order: the directories read (line 693) and the files pushed (line 728)

visitListedEntries(dir) == Reverse(SortByName(ReadDir[dir]))

\* lines 693-694
visitSortedEntries(dir) == SortByName(ReadDir[dir])

RECURSIVE visit(_, _, _, _)
RECURSIVE visitEntries(_, _, _, _, _, _)
visitEntries(dir, entries, j, rules, current, opts) ==
  IF j > Len(entries) THEN <<>>
  ELSE LET entry == entries[j]
           entryPath == dir \o <<entry.name>>
           entryStatus == checkIgnores(entryPath, rules, entry.isDirectory, current)
           done ==
             IF entry.isFile /\ entry.name = ".gitignore" THEN <<>>
             ELSE IF entry.isDirectory /\ entry.name = "node_modules" THEN <<>>
             ELSE IF entry.isDirectory /\ entryStatus # "ignored"
             THEN visit(entryPath, rules, entryStatus, opts)
             ELSE IF entry.isFile /\ entryStatus = "included"
             THEN <<[push |-> TRUE, path |-> entryPath, status |-> entryStatus]>>
             ELSE <<>>
       IN  done \o visitEntries(dir, entries, j + 1, rules, current, opts)

visit(dir, rules, current, opts) ==
  <<[push |-> FALSE, path |-> dir, status |-> current]>>
    \o visitEntries(dir, visitSortedEntries(relative(opts.testDir, dir)), 1,
                    RulesIn(dir, rules, opts), current, opts)

\* lines 657-660 and 730: nothing is visited when testDir is no directory
collectFilesVisits(opts) ==
  IF ~opts.testDirIsDirectory THEN <<>>
  ELSE visit(opts.testDir, <<>>, "included", opts)

\* line 731: the files pushed
collectFiles(opts) ==
  LET pushes == SelectSeq(collectFilesVisits(opts), LAMBDA v : v.push)
  IN  [j \in DOMAIN pushes |-> pushes[j].path]

\* the directories handed to readDirAsync, with the status they were visited in
readDirCalls(opts) == SelectSeq(collectFilesVisits(opts), LAMBDA v : ~v.push)

IgnoreInit ==
  /\ RunnerIdle
  /\ projects = [p \in Projects |-> [stage |-> 0, run |-> "default"]]
  /\ fnPc = "input"
  /\ workers = 1
  /\ shard = NoShard
  /\ projectSuites = <<>>
  /\ rootSuite = <<>>
  /\ concurrentTestGroups = <<>>
  /\ before = <<>>
  /\ transport = <<>>
  /\ returned = <<>>
  /\ \E testDir \in TestDirs, isDir \in BOOLEAN, respectGitIgnore \in BOOLEAN :
       \E top \in RuleLists(testDir, MaxRules),
          inBuild \in RuleLists(testDir \o <<"build">>, 1) :
         options = [testDir |-> testDir,
                    testDirIsDirectory |-> isDir,
                    respectGitIgnore |-> respectGitIgnore,
                    gitignore |-> [d \in {<<>>, <<"build">>} |->
                                     IF d = <<>> THEN top ELSE inBuild]]

CollectFiles ==
  /\ fnPc = "input"
  /\ returned' = [files |-> collectFiles(options), readDir |-> readDirCalls(options)]
  /\ fnPc' = "applied"
  /\ UNCHANGED <<runVars, workers, shard, projectSuites, rootSuite, concurrentTestGroups,
                 before, options, transport>>

IgnoreNext == CollectFiles

IgnoreSpec == IgnoreInit /\ [][IgnoreNext]_vars

\* the entries below the test directory, and the rules an entry is checked against
AllEntries ==
  UNION {{[path |-> options.testDir \o d \o <<e.name>>,
           isDirectory |-> e.isDirectory, isFile |-> e.isFile] : e \in ReadDir[d]} :
           d \in DOMAIN ReadDir}

RECURSIVE RulesFor(_, _)
RulesFor(dir, opts) ==
  IF dir = opts.testDir THEN RulesIn(dir, <<>>, opts)
  ELSE RulesIn(dir, RulesFor(SubSeq(dir, 1, Len(dir) - 1), opts), opts)

ParentOf(entryPath) == SubSeq(entryPath, 1, Len(entryPath) - 1)

\* C30: checkIgnores starts from the status of the parent directory and applies
\* the rules in order; an excluding rule changes the status only when it is
\* 'included', a negating rule only when it is not 'included'; a rule produces
\* 'ignored-but-recurse' only for a directory, when it negates and matches the
\* directory partially but not fully.  With the rules build/ and !build/keep/,
\* build/x.test.ts is dropped and build/keep/y.test.ts is emitted.
C30_CheckIgnores ==
  (fnPc = "applied" /\ options.testDirIsDirectory) =>
    /\ \A e \in AllEntries, parentStatus \in IgnoreStatuses :
         LET rules == RulesFor(ParentOf(e.path), options)
             at(n) == StatusAfter(e.path, rules, e.isDirectory, parentStatus, n)
         IN  /\ at(0) = parentStatus
             /\ checkIgnores(e.path, rules, e.isDirectory, parentStatus) = at(Len(rules))
             /\ \A n \in DOMAIN rules :
                  /\ (at(n) # at(n - 1) /\ ~rules[n].negate) => at(n - 1) = "included"
                  /\ (at(n) # at(n - 1) /\ rules[n].negate) => at(n - 1) # "included"
                  /\ (at(n) # at(n - 1) /\ at(n) = "ignored-but-recurse") =>
                       /\ e.isDirectory
                       /\ rules[n].negate
                       /\ MatchesPartially(rules[n], e.path)
                       /\ ~MatchesFully(rules[n], e.path)
                       /\ ~MatchesAsDirectory(rules[n], e.path)
    /\ (/\ options.respectGitIgnore
        /\ options.gitignore[<<>>] =
             << [dir |-> options.testDir, negate |-> FALSE, pattern |-> <<"build", "">>],
                [dir |-> options.testDir, negate |-> TRUE, pattern |-> <<"build", "keep", "">>] >>
        /\ options.gitignore[<<"build">>] = <<>>)
         => returned.files = << options.testDir \o <<"a.test.ts">>,
                                options.testDir \o <<"build", "keep", "y.test.ts">> >>
    /\ ~options.respectGitIgnore =>
         returned.files = << options.testDir \o <<"a.test.ts">>,
                             options.testDir \o <<"build", "keep", "y.test.ts">>,
                             options.testDir \o <<"build", "x.test.ts">> >>

\* the rules build/ and !build/keep/ in the .gitignore of the test directory
C30_Witness ==
  /\ fnPc = "applied"
  /\ options.testDirIsDirectory
  /\ options.respectGitIgnore
  /\ options.gitignore[<<>>] =
       << [dir |-> options.testDir, negate |-> FALSE, pattern |-> <<"build", "">>],
          [dir |-> options.testDir, negate |-> TRUE, pattern |-> <<"build", "keep", "">>] >>
  /\ options.gitignore[<<"build">>] = <<>>
  /\ checkIgnores(options.testDir \o <<"build">>, options.gitignore[<<>>], TRUE, "included")
       = "ignored-but-recurse"
  /\ options.testDir \o <<"build", "x.test.ts">> \notin Range(returned.files)
  /\ options.testDir \o <<"build", "keep", "y.test.ts">> \in Range(returned.files)

\* the status collectFiles computes for an entry: that of the test directory is
\* 'included', that of any other entry comes from its parent's
RECURSIVE StatusOf(_, _, _)
StatusOf(entryPath, isDirectory, opts) ==
  IF entryPath = opts.testDir THEN "included"
  ELSE checkIgnores(entryPath, RulesFor(ParentOf(entryPath), opts), isDirectory,
                    StatusOf(ParentOf(entryPath), TRUE, opts))

\* the names of the directories a path lies below
DirectoryNames(entryPath) == {entryPath[j] : j \in 1..(Len(entryPath) - 1)}

DirectoryNamesInTestDir(entryPath) ==
  {entryPath[j] : j \in (Len(options.testDir) + 1)..(Len(entryPath) - 1)}

FileName(entryPath) == entryPath[Len(entryPath)]

PositionOf(name) == CHOOSE j \in DOMAIN NameOrder : NameOrder[j] = name

\* f comes before g in a depth-first walk that takes the entries of a directory by name
WalkedBefore(f, g) ==
  \E at \in DOMAIN f \cap DOMAIN g :
    /\ \A below \in 1..(at - 1) : f[below] = g[below]
    /\ f[at] # g[at]
    /\ PositionOf(f[at]) < PositionOf(g[at])

EmittedFiles == Range(returned.files)

OnlyIncludedEmitted ==
  \A f \in EmittedFiles :
    \E e \in AllEntries : e.path = f /\ e.isFile /\ StatusOf(f, FALSE, options) = "included"

NoGitIgnoreEmitted == \A f \in EmittedFiles : FileName(f) # ".gitignore"

NoIgnoredDirectoryRead ==
  \A j \in DOMAIN returned.readDir :
    /\ returned.readDir[j].status # "ignored"
    /\ returned.readDir[j].status = StatusOf(returned.readDir[j].path, TRUE, options)

EveryOtherFileEmitted ==
  ~options.respectGitIgnore =>
    EmittedFiles = {e.path : e \in {x \in AllEntries :
                      /\ x.isFile
                      /\ FileName(x.path) # ".gitignore"
                      /\ "node_modules" \notin DirectoryNamesInTestDir(x.path)}}

DepthFirstByName ==
  \A i, j \in DOMAIN returned.files :
    i < j => WalkedBefore(returned.files[i], returned.files[j])

CollectedFrom(dirs) == fnPc = "applied" /\ options.testDirIsDirectory /\ options.testDir \in dirs

\* C31 as stated: the collector emits a file only when its status is 'included',
\* never a file named .gitignore, never a file below a directory named
\* node_modules, never reads a directory whose status is 'ignored'; without
\* respectGitIgnore it emits every other file under testDir; the list is in
\* depth-first order, the entries of a directory taken by name.
C31_NothingBelowNodeModules ==
  CollectedFrom(TestDirs) =>
    /\ OnlyIncludedEmitted
    /\ NoGitIgnoreEmitted
    /\ \A f \in EmittedFiles : "node_modules" \notin DirectoryNames(f)
    /\ NoIgnoredDirectoryRead
    /\ EveryOtherFileEmitted
    /\ DepthFirstByName

\* C31, amended: as stated, but the directories named node_modules that are
\* never entered are those found below testDir; a testDir that itself lies
\* below a directory named node_modules is collected like any other.
C31_CollectedFiles ==
  CollectedFrom(TestDirs) =>
    /\ OnlyIncludedEmitted
    /\ NoGitIgnoreEmitted
    /\ \A f \in EmittedFiles : "node_modules" \notin DirectoryNamesInTestDir(f)
    /\ \A j \in DOMAIN returned.readDir :
         "node_modules" \notin DirectoryNamesInTestDir(returned.readDir[j].path \o <<"">>)
    /\ NoIgnoredDirectoryRead
    /\ EveryOtherFileEmitted
    /\ DepthFirstByName

\* a test directory below node_modules, with build/ ignored and build/keep/
\* taken back: build is read with the status 'ignored-but-recurse', its file is
\* dropped and the file of build/keep is emitted after a.test.ts
C31_Witness ==
  /\ CollectedFrom({<<"node_modules", "pkg">>})
  /\ options.respectGitIgnore
  /\ \E j \in DOMAIN returned.readDir :
       /\ returned.readDir[j].path = options.testDir \o <<"build">>
       /\ returned.readDir[j].status = "ignored-but-recurse"
  /\ returned.files = << options.testDir \o <<"a.test.ts">>,
                         options.testDir \o <<"build", "keep", "y.test.ts">> >>
  /\ StatusOf(options.testDir \o <<"build", "x.test.ts">>, FALSE, options) # "included"

=============================================================================
